---- MODULE Spec2Model ----
(***************************************************************************)
(* A model of the KES kernel of Karuha (src/karuha/kes/core): the strong   *)
(* record arena (RecordManager), the phantom registry                      *)
(* (PhantomNetworkManager), message dispatch (Node.handle_message) and the *)
(* event routing of networks (Network.on_event).                           *)
(*                                                                         *)
(* Each subsystem has its own specification over its own variables; the    *)
(* other variables stay at their initial value.                            *)
(*   SpecArena    - RecordManager.new / get / drop                         *)
(*   SpecPhantom  - PhantomNetworkManager.new / get / drop / gc / __iter__  *)
(*   SpecDispatch - Node.handle_message on one message                     *)
(*   SpecNet      - a chain of networks routing events (Network.on_event)   *)
(*   SpecLife     - creation, finalization and drop of nodes and networks   *)
(*   SpecPort     - PortGet / PortSet on the ports of one node                *)
(*   SpecEdge     - creation and drop of nodes with forward edges           *)
(*   SpecReuse    - drop, finalization and creation on one network: ids     *)
(*                  that are freed and given out again                     *)
(***************************************************************************)
EXTENDS Integers, Sequences, FiniteSets, TLC

VARIABLES
    \* ---- strong arena (record.py, RecordManager)
    records,    \* self._records: sequence of NodeRecord; id i is records[i+1]
    id_cache,   \* self._id_cache: the set of freed ids
    nid_of,     \* node.nid of every node (NoNid: attribute not set)
    a_live,     \* history: id -> the node handed to the new() that returned id,
                \* for the ids not dropped since
    a_last,     \* the last call on the arena: its arguments, result and pre-state
    \* ---- phantom registry (core/phantom.py and builtin/phantom.py)
    p_impl,     \* which PhantomNetworkManager: "core" or "builtin"
    p_records,  \* self._records (core) / self._nodes (builtin): id -> weak entry
    p_count,    \* self._count
    p_ext,      \* the nodes some collaborator still holds a strong reference to
    p_given,    \* history: id -> the node handed to the new() that returned id
    p_dropped,  \* history: the ids a drop() has succeeded on
    p_issued,   \* history: the ids returned by new(), in call order
    p_last,     \* the last call on the registry and its result
    \* ---- message dispatch (node.py, Node.handle_message)
    d_pc,       \* "idle", or "done" once a dispatch has run
    d_in,       \* the dispatch's inputs: the class's handlers, the message ...
    d_out,      \* what the dispatch did: handlers invoked, messages sent, status
    \* ---- networks and event routing (network.py, root.py)
    event_map,  \* event_map of every network: event type -> list of subscribers
    tasks,      \* the loop's ready queue: the tasks send_message created, in order
    n_batch,    \* how many tasks of the loop's current iteration are still to run
    stopped,    \* loop.stop() has been called
    n_reg,      \* history: per network and type, the subscribers in registration order
    n_count,    \* how many events, registrations and unregistrations came from outside
    n_last,     \* the last step: the task run, its handlers, the sends it made
    \* ---- node and network lifecycle (network.py, root.py, api.py)
    l_cfg,      \* whether phantom_net_factory yields the phantom network
    l_recs,     \* the RecordManager of the root network and of the network N
    l_stopping, \* the stopping flag of every network
    l_nid,      \* node.nid of every node
    l_net,      \* node.net of every node
    l_ph,       \* the registry of the phantom network
    l_inits,    \* how many NodeInitializeMessage each child has handled
    l_drops,    \* history: how many NodeDropEvents each node has sent for itself
    l_tasks,    \* the loop's ready queue
    l_from,     \* history: for every task of the ready queue, the node whose
                \* task created it (NoOwner: a call from outside)
    l_batch,    \* how many tasks of the loop's current iteration are still to run
    l_stopped,  \* loop.stop() has been called
    l_count,    \* how many calls came from outside
    l_last,     \* the last step: the task run, its handlers, the sends it made
    \* ---- ports of one node (node.py, network.py RecordPort)
    pt_ports,   \* node.port_map: port name -> port (or none)
    pt_attrs,   \* the node's attributes behind its AttrPorts
    pt_count,   \* how many _export calls came from outside
    pt_last     \* the last step: the request handled, the sends it made

arenaVars == <<records, id_cache, nid_of, a_live, a_last>>

phantomVars == <<p_impl, p_records, p_count, p_ext, p_given, p_dropped,
                 p_issued, p_last>>

dispatchVars == <<d_pc, d_in, d_out>>

netVars == <<event_map, tasks, n_batch, stopped, n_reg, n_count, n_last>>

lifeVars == <<l_cfg, l_recs, l_stopping, l_nid, l_net, l_ph, l_inits, l_drops,
              l_tasks, l_from, l_batch, l_stopped, l_count, l_last>>

portVars == <<pt_ports, pt_attrs, pt_count, pt_last>>

vars == <<records, id_cache, nid_of, a_live, a_last,
          p_impl, p_records, p_count, p_ext, p_given, p_dropped, p_issued, p_last,
          d_pc, d_in, d_out,
          event_map, tasks, n_batch, stopped, n_reg, n_count, n_last,
          l_cfg, l_recs, l_stopping, l_nid, l_net, l_ph, l_inits, l_drops, l_tasks,
          l_from, l_batch, l_stopped, l_count, l_last,
          pt_ports, pt_attrs, pt_count, pt_last>>

-----------------------------------------------------------------------------
(* Bounds *)

\* the arena's storage never grows beyond MaxLen slots
MaxLen == 3
\* the number of distinct node objects
NumNodes == 3

Nodes == 1..NumNodes
NoNode == 0
NoNid == -1
NoPick == -2

\* the ids a caller may pass to get/drop: every slot, one below and one above
ArgIds == (-1)..MaxLen

\* the phantom registry issues at most MaxCount ids
MaxCount == 3
\* the number of distinct node objects offered to the phantom registry
NumPNodes == 2

PNodes == 1..NumPNodes
\* the ids a caller may pass to the registry: every issued id and one never issued
PArgIds == 0..MaxCount

-----------------------------------------------------------------------------
(* RecordManager (src/karuha/kes/core/record.py) *)

\* NodeRecord(node, set())
NodeRecord(node) == [node |-> node, next |-> {}]

NoRecord == [node |-> NoNode, next |-> {}]

\* the arena's two fields as one value
ArenaState == [records |-> records, id_cache |-> id_cache]

\* RecordManager.get: the record, or the RuntimeError thrown
RM_get(st, nid) ==
    IF nid < 0 \/ nid >= Len(st.records) \/ nid \in st.id_cache
    THEN [err |-> "RuntimeError", record |-> NoRecord]
    ELSE [err |-> "ok", record |-> st.records[nid + 1]]

\* set.pop() removes and returns an arbitrary element: every member is possible
PopChoices(s) == s

\* a new that always appends and never reuses a freed id
RM_new_Append(st, node, pick) ==
    [records  |-> Append(st.records, NodeRecord(node)),
     id_cache |-> st.id_cache,
     nid      |-> Len(st.records)]

\* RecordManager.new; pick is the id set.pop() yields when the cache is not empty
RM_new(st, node, pick) ==
    IF st.id_cache # {}
    THEN [records  |-> [st.records EXCEPT ![pick + 1] = NodeRecord(node)],
          id_cache |-> st.id_cache \ {pick},
          nid      |-> pick]
    ELSE [records  |-> Append(st.records, NodeRecord(node)),
          id_cache |-> st.id_cache,
          nid      |-> Len(st.records)]

\* the while loop of drop: pop the storage while its last slot is marked free
RECURSIVE Truncate(_, _)
Truncate(recs, cache) ==
    IF (Len(recs) - 1) \in cache
    THEN Truncate(SubSeq(recs, 1, Len(recs) - 1), cache \ {Len(recs) - 1})
    ELSE [records |-> recs, id_cache |-> cache]

\* a drop that pops the last slot once and never looks at the slots below it
RM_drop_NoLoop(st, nid) ==
    IF nid = Len(st.records) - 1
    THEN IF Len(st.records) = 0
         THEN [records |-> st.records, id_cache |-> st.id_cache,
               err |-> "IndexError", node |-> NoNode]
         ELSE [records  |-> SubSeq(st.records, 1, Len(st.records) - 1),
               id_cache |-> st.id_cache,
               err      |-> "ok",
               node     |-> st.records[Len(st.records)].node]
    ELSE LET g == RM_get(st, nid) IN
         IF g.err # "ok"
         THEN [records |-> st.records, id_cache |-> st.id_cache,
               err |-> g.err, node |-> NoNode]
         ELSE [records  |-> st.records,
               id_cache |-> st.id_cache \cup {nid},
               err      |-> "ok",
               node     |-> g.record.node]

\* a drop whose loop pops the trailing free slots but leaves their ids in the cache
RM_drop_KeepIds(st, nid) ==
    LET r == RM_drop_NoLoop(st, nid) IN
    IF nid = Len(st.records) - 1 /\ r.err = "ok"
    THEN [r EXCEPT !.records = Truncate(r.records, r.id_cache).records]
    ELSE r

\* RecordManager.drop: list.pop() of an empty list raises IndexError
RM_drop(st, nid) ==
    IF nid = Len(st.records) - 1
    THEN IF Len(st.records) = 0
         THEN [records |-> st.records, id_cache |-> st.id_cache,
               err |-> "IndexError", node |-> NoNode]
         ELSE LET t == Truncate(SubSeq(st.records, 1, Len(st.records) - 1),
                                st.id_cache)
              IN  [records  |-> t.records,
                   id_cache |-> t.id_cache,
                   err      |-> "ok",
                   node     |-> st.records[Len(st.records)].node]
    ELSE LET g == RM_get(st, nid) IN
         IF g.err # "ok"
         THEN [records |-> st.records, id_cache |-> st.id_cache,
               err |-> g.err, node |-> NoNode]
         ELSE [records  |-> st.records,
               id_cache |-> st.id_cache \cup {nid},
               err      |-> "ok",
               node     |-> g.record.node]

\* RecordManager.__iter__: the ids it yields a record for
RM_iter(st) == {i \in 0..(Len(st.records) - 1) : i \notin st.id_cache}

\* RecordManager.__len__
RM_len(st) == Len(st.records) - Cardinality(st.id_cache)

\* the nodes of the records __iter__ yields
ArenaMembers == {records[i + 1].node : i \in RM_iter(ArenaState)}

InitArena ==
    /\ records = <<>>
    /\ id_cache = {}
    /\ nid_of = [n \in Nodes |-> NoNid]
    /\ a_live = [i \in {} |-> NoNode]
    /\ a_last = [op |-> "none", arg |-> NoNid, node |-> NoNode, err |-> "ok",
                 ret |-> NoNid, pre |-> [records |-> <<>>, id_cache |-> {}],
                 live |-> {}]

\* records.new(node) for a node that is not a member of the arena
New(node) ==
    /\ node \notin ArenaMembers
    /\ id_cache # {} \/ Len(records) < MaxLen
    /\ \E pick \in (IF id_cache = {} THEN {NoPick} ELSE PopChoices(id_cache)) :
         LET r == RM_new(ArenaState, node, pick) IN
         /\ records' = r.records
         /\ id_cache' = r.id_cache
         /\ nid_of' = [nid_of EXCEPT ![node] = r.nid]
         /\ a_live' = [i \in (DOMAIN a_live) \cup {r.nid} |->
                          IF i = r.nid THEN node ELSE a_live[i]]
         /\ a_last' = [op |-> "new", arg |-> NoNid, node |-> node, err |-> "ok",
                       ret |-> r.nid, pre |-> ArenaState, live |-> DOMAIN a_live]

\* records.get(nid)
Get(nid) ==
    LET r == RM_get(ArenaState, nid) IN
    /\ a_last' = [op |-> "get", arg |-> nid, node |-> r.record.node, err |-> r.err,
                  ret |-> NoNid, pre |-> ArenaState, live |-> DOMAIN a_live]
    /\ UNCHANGED <<records, id_cache, nid_of, a_live>>

\* records.drop(nid)
Drop(nid) ==
    LET r == RM_drop(ArenaState, nid) IN
    /\ records' = r.records
    /\ id_cache' = r.id_cache
    /\ a_live' = IF r.err = "ok"
                 THEN [i \in (DOMAIN a_live) \ {nid} |-> a_live[i]]
                 ELSE a_live
    /\ a_last' = [op |-> "drop", arg |-> nid, node |-> r.node, err |-> r.err,
                  ret |-> NoNid, pre |-> ArenaState, live |-> DOMAIN a_live]
    /\ UNCHANGED nid_of

NextArena ==
    \/ \E node \in Nodes : New(node) /\ UNCHANGED <<phantomVars, dispatchVars, netVars, lifeVars, portVars>>
    \/ \E nid \in ArgIds : Get(nid) /\ UNCHANGED <<phantomVars, dispatchVars, netVars, lifeVars, portVars>>
    \/ \E nid \in ArgIds : Drop(nid) /\ UNCHANGED <<phantomVars, dispatchVars, netVars, lifeVars, portVars>>

-----------------------------------------------------------------------------
(* PhantomNetworkManager: core/phantom.py (a dict of weak records) and      *)
(* builtin/phantom.py (a WeakValueDictionary)                               *)

\* f without key k
Without(f, k) == [i \in (DOMAIN f) \ {k} |-> f[i]]

\* f with key k set to v
With(f, k, v) == [i \in (DOMAIN f) \cup {k} |-> IF i = k THEN v ELSE f[i]]

\* a record that holds its node strongly
PhantomRecord_Strong(node) == [node |-> node, weak |-> FALSE]

\* PhantomRecord.__init__: the record holds ref(node), a weak reference
PhantomRecord(node) == [node |-> node, weak |-> TRUE]

\* the value a WeakValueDictionary stores: a weak reference too
WeakValue(node) == [node |-> node, weak |-> TRUE]

\* the nodes kept alive by a strong reference: those a collaborator holds and
\* those some entry holds strongly
AliveNodes(ext, recs) ==
    ext \cup {recs[i].node : i \in {j \in DOMAIN recs : ~recs[j].weak}}

\* PhantomRecord.valid: the weak reference still resolves
PR_valid(rec, alive) == rec.node \in alive

PhantomState == [records |-> p_records, count |-> p_count]

\* core PhantomNetworkManager.get: a dead record is deleted before the throw
PNM_get(st, nid, alive) ==
    IF nid \in DOMAIN st.records
    THEN IF PR_valid(st.records[nid], alive)
         THEN [err |-> "ok", node |-> st.records[nid].node, records |-> st.records]
         ELSE [err |-> "RuntimeError", node |-> NoNode,
               records |-> Without(st.records, nid)]
    ELSE [err |-> "RuntimeError", node |-> NoNode, records |-> st.records]

\* a new that forgets to advance the counter
PNM_new_NoIncrement(st, node) ==
    [records |-> With(st.records, st.count, PhantomRecord(node)),
     count   |-> st.count,
     nid     |-> st.count]

\* core PhantomNetworkManager.new
PNM_new(st, node) ==
    [records |-> With(st.records, st.count, PhantomRecord(node)),
     count   |-> st.count + 1,
     nid     |-> st.count]

\* core PhantomNetworkManager.drop
PNM_drop(st, nid, alive) ==
    LET g == PNM_get(st, nid, alive) IN
    IF g.err = "ok"
    THEN [err |-> "ok", node |-> g.node, records |-> Without(g.records, nid)]
    ELSE g

\* core PhantomNetworkManager.gc, and the pruning __iter__ ends with
PNM_gc(st, alive) ==
    [i \in {j \in DOMAIN st.records : PR_valid(st.records[j], alive)} |->
        st.records[i]]

\* core PhantomNetworkManager.__iter__: the nodes of the records it yields
PNM_iter(st, alive) ==
    {st.records[i].node : i \in {j \in DOMAIN st.records :
                                      PR_valid(st.records[j], alive)}}

\* builtin PhantomNetworkManager.get
BPM_get(st, nid) ==
    IF nid \notin DOMAIN st.records
    THEN [err |-> "RuntimeError", node |-> NoNode, records |-> st.records]
    ELSE [err |-> "ok", node |-> st.records[nid].node, records |-> st.records]

\* builtin PhantomNetworkManager.new
BPM_new(st, node) ==
    [records |-> With(st.records, st.count, WeakValue(node)),
     count   |-> st.count + 1,
     nid     |-> st.count]

\* builtin PhantomNetworkManager.drop: resolves the node and deletes nothing
BPM_drop(st, nid) == BPM_get(st, nid)

\* builtin PhantomNetworkManager.__iter__: the nodes of the records it yields
BPM_iter(st) == {st.records[i].node : i \in DOMAIN st.records}

\* a WeakValueDictionary discards the entries of a node when the node dies
WVD_purge(recs, alive) ==
    [i \in {j \in DOMAIN recs : recs[j].node \in alive} |-> recs[i]]

Alive == AliveNodes(p_ext, p_records)

InitPhantomOf(impl) ==
    /\ p_impl = impl
    /\ p_records = [i \in {} |-> PhantomRecord(NoNode)]
    /\ p_count = 0
    /\ p_ext = PNodes
    /\ p_given = [i \in {} |-> NoNode]
    /\ p_dropped = {}
    /\ p_issued = <<>>
    /\ p_last = [op |-> "none", nid |-> NoNid, node |-> NoNode, err |-> "ok",
                 seen |-> {}]

\* rdm.new(node), by a collaborator that holds the node
PNew(node) ==
    /\ node \in p_ext
    /\ p_count < MaxCount
    /\ LET r == IF p_impl = "core" THEN PNM_new(PhantomState, node)
                                   ELSE BPM_new(PhantomState, node) IN
       /\ p_records' = r.records
       /\ p_count' = r.count
       /\ p_given' = With(p_given, r.nid, node)
       /\ p_issued' = Append(p_issued, r.nid)
       /\ p_last' = [op |-> "new", nid |-> r.nid, node |-> node, err |-> "ok",
                     seen |-> {}]
    /\ UNCHANGED <<p_impl, p_ext, p_dropped>>

\* rdm.get(nid)
PGet(nid) ==
    /\ LET r == IF p_impl = "core" THEN PNM_get(PhantomState, nid, Alive)
                                   ELSE BPM_get(PhantomState, nid) IN
       /\ p_records' = r.records
       /\ p_last' = [op |-> "get", nid |-> nid, node |-> r.node, err |-> r.err,
                     seen |-> {}]
    /\ UNCHANGED <<p_impl, p_count, p_ext, p_given, p_dropped, p_issued>>

\* rdm.drop(nid)
PDrop(nid) ==
    /\ LET r == IF p_impl = "core" THEN PNM_drop(PhantomState, nid, Alive)
                                   ELSE BPM_drop(PhantomState, nid) IN
       /\ p_records' = r.records
       /\ p_dropped' = IF r.err = "ok" THEN p_dropped \cup {nid} ELSE p_dropped
       /\ p_last' = [op |-> "drop", nid |-> nid, node |-> r.node, err |-> r.err,
                     seen |-> {}]
    /\ UNCHANGED <<p_impl, p_count, p_ext, p_given, p_issued>>

\* rdm.gc() (the core registry only)
PGc ==
    /\ p_impl = "core"
    /\ p_records' = PNM_gc(PhantomState, Alive)
    /\ p_last' = [op |-> "gc", nid |-> NoNid, node |-> NoNode, err |-> "ok",
                  seen |-> {}]
    /\ UNCHANGED <<p_impl, p_count, p_ext, p_given, p_dropped, p_issued>>

\* a full iteration over the registry
PIter ==
    /\ p_records' = IF p_impl = "core" THEN PNM_gc(PhantomState, Alive)
                                       ELSE p_records
    /\ p_last' = [op |-> "iter", nid |-> NoNid, node |-> NoNode, err |-> "ok",
                  seen |-> IF p_impl = "core" THEN PNM_iter(PhantomState, Alive)
                                              ELSE BPM_iter(PhantomState)]
    /\ UNCHANGED <<p_impl, p_count, p_ext, p_given, p_dropped, p_issued>>

\* the collaborators release their last strong reference to node: unless an
\* entry holds it, the node dies, and a WeakValueDictionary forgets it at once
Release(node) ==
    /\ node \in p_ext
    /\ p_ext' = p_ext \ {node}
    /\ p_records' = IF p_impl = "builtin"
                    THEN WVD_purge(p_records, AliveNodes(p_ext \ {node}, p_records))
                    ELSE p_records
    /\ p_last' = [op |-> "release", nid |-> NoNid, node |-> node, err |-> "ok",
                  seen |-> {}]
    /\ UNCHANGED <<p_impl, p_count, p_given, p_dropped, p_issued>>

NextPhantom ==
    \/ \E node \in PNodes : PNew(node) /\ UNCHANGED <<arenaVars, dispatchVars, netVars, lifeVars, portVars>>
    \/ \E nid \in PArgIds : PGet(nid) /\ UNCHANGED <<arenaVars, dispatchVars, netVars, lifeVars, portVars>>
    \/ \E nid \in PArgIds : PDrop(nid) /\ UNCHANGED <<arenaVars, dispatchVars, netVars, lifeVars, portVars>>
    \/ PGc /\ UNCHANGED <<arenaVars, dispatchVars, netVars, lifeVars, portVars>>
    \/ PIter /\ UNCHANGED <<arenaVars, dispatchVars, netVars, lifeVars, portVars>>
    \/ \E node \in PNodes : Release(node) /\ UNCHANGED <<arenaVars, dispatchVars, netVars, lifeVars, portVars>>

-----------------------------------------------------------------------------
(* Message types and handler tables (message.py, node.py) *)

\* the message classes: those of message.py and three of a collaborator,
\* Base, Derived(Base) and Other
MsgTypes == {"Message", "DataMessage", "NodeInitializeMessage",
             "NodeFinalizeMessage", "ReflectMessage", "PortAction", "PortGet",
             "PortSet", "PortExportAttr", "Base", "Derived", "Other"}

\* the direct base class of a message class
MsgBase(t) ==
    CASE t \in {"PortGet", "PortSet", "PortExportAttr"} -> "PortAction"
      [] t = "Derived" -> "Base"
      [] OTHER -> "Message"

\* cls.__mro__ up to Message, most specific first
RECURSIVE MsgMro(_)
MsgMro(t) == IF t = "Message" THEN <<"Message">> ELSE <<t>> \o MsgMro(MsgBase(t))

\* the classes of cls.__mro__
MroTypes(t) == {MsgMro(t)[k] : k \in 1..Len(MsgMro(t))}

HandlerFlags == {"REFLECTIVE", "SEND_RET", "PROPAGATE"}

\* MessageHandler(func, flag); fn names the function
Handler(fn, flag) == [present |-> TRUE, fn |-> fn, flag |-> flag]

\* __message_handler__.get(tp) is None
NoHandler == [present |-> FALSE, fn |-> "none", flag |-> {}]

\* Node.__message_handler__
NodeHandlers ==
    [t \in MsgTypes |->
        CASE t = "NodeInitializeMessage" -> Handler("on_initialize", {})
          [] t = "NodeFinalizeMessage" -> Handler("on_finalize", {})
          [] t = "PortGet" -> Handler("on_port_get", {"REFLECTIVE", "SEND_RET"})
          [] t = "PortSet" -> Handler("on_port_set", {})
          [] OTHER -> NoHandler]

\* Node.__init_subclass__: the base class's table, overridden by the handlers
\* the subclass body declares
InitSubclass(base, own) ==
    [t \in MsgTypes |-> IF t \in DOMAIN own /\ own[t].present THEN own[t] ELSE base[t]]

-----------------------------------------------------------------------------
(* Node.handle_message (src/karuha/kes/core/node.py) *)

NoTarget == "none"

\* the progress of one dispatch
Acc0 == [invoked |-> <<>>, sent |-> <<>>, handled |-> FALSE, passed |-> FALSE,
         status |-> "running"]

\* BaseNode.send_message(target, message): one more task
SendTo(acc, to, msg) == [acc EXCEPT !.sent = Append(@, [to |-> to, msg |-> msg])]

\* BaseNode.throw: send the exception to the owning network, then raise
\* NodeCancelledError
Throw(acc, exc) == [SendTo(acc, "net", exc) EXCEPT !.status = "cancelled"]

\* BaseNode.pass_down: one send per node _record_next returned
RECURSIVE PassDown(_, _, _)
PassDown(acc, nodes, msg) ==
    IF nodes = <<>> THEN acc
    ELSE PassDown(SendTo(acc, Head(nodes), msg), Tail(nodes), msg)

\* a walk that goes on after every handler
StopsWalk_Never(hdl) == FALSE

\* a walk that ends after the first handler, whatever its flags
StopsWalk_Always(hdl) == TRUE

\* handle_message: "if HandlerFlag.PROPAGATE not in hdl.flag: break"
StopsWalk(hdl) == "PROPAGATE" \notin hdl.flag

\* a dispatch that lets an unhandled message pass in silence
NotHandled_Ignore(acc) == [acc EXCEPT !.status = "done"]

\* handle_message: "if not handled: self.throw(UnsupportedMessageError(...))"
NotHandled(acc) == Throw(acc, "UnsupportedMessageError")

\* the SEND_RET part of the loop body: the reply goes to the ReflectMessage's
\* target, or down the forward edges; next is what _record_next yields
SendRet(acc, hdl, target, next) ==
    IF "SEND_RET" \notin hdl.flag THEN acc
    ELSE IF target # NoTarget
    THEN IF "REFLECTIVE" \notin hdl.flag
         THEN Throw(acc, "UnsupportedMessageError")
         ELSE SendTo(acc, target, "DataMessage")
    ELSE IF next.err # "ok"
    THEN Throw([acc EXCEPT !.passed = TRUE], next.err)
    ELSE PassDown([acc EXCEPT !.passed = TRUE], next.nodes, "DataMessage")

\* the loop over message.__class__.__mro__, from position i; outcome[tp] is how
\* the handler registered for tp ends when invoked: it returns ("ret"), throws
\* a kernel exception ("throw") or fails with a Python error ("pyerr")
RECURSIVE Walk(_, _, _, _, _, _, _)
Walk(table, mro, i, target, outcome, next, acc) ==
    IF i > Len(mro)
    THEN IF acc.handled THEN [acc EXCEPT !.status = "done"] ELSE NotHandled(acc)
    ELSE LET tp  == mro[i]
             hdl == table[tp]
             a1  == [acc EXCEPT !.invoked = Append(@, tp)]
         IN
         IF ~hdl.present THEN Walk(table, mro, i + 1, target, outcome, next, acc)
         ELSE IF outcome[tp] = "throw" THEN Throw(a1, "Exception")
         ELSE IF outcome[tp] = "pyerr" THEN [a1 EXCEPT !.status = "pyerror"]
         ELSE LET a2 == SendRet([a1 EXCEPT !.handled = TRUE], hdl, target, next) IN
              IF a2.status = "cancelled" THEN a2
              ELSE IF StopsWalk(hdl) THEN [a2 EXCEPT !.status = "done"]
              ELSE Walk(table, mro, i + 1, target, outcome, next, a2)

\* Node.handle_message under prepare_and_exec. phantom: the node's net is a
\* PhantomNetwork; mtype: the class of the message, or of the raw message of a
\* ReflectMessage, whose target is then target
HandleMessage(table, phantom, mtype, target, outcome, next) ==
    IF phantom THEN Throw(Acc0, "RuntimeError")
    ELSE Walk(table, MsgMro(mtype), 1, target, outcome, next, Acc0)

\* the message classes the collaborator's node class declares handlers for
OwnTypes == {"Base", "Derived"}

\* the handlers a node class may declare for a type: none, or one of any flags
OwnHandlers == {NoHandler} \cup {Handler("user", f) : f \in SUBSET HandlerFlags}

\* the messages dispatched
SentTypes == {"Derived", "Base", "Other", "PortGet", "NodeInitializeMessage"}

Outcomes == {"ret", "throw", "pyerr"}

\* the nodes forward edges may lead to
DTargets == {"t1", "t2"}

\* what net._record_next(nid) may yield: a RuntimeError from records.get, or
\* the nodes of the forward edges in the set's iteration order
RecordNextResults ==
    {[err |-> "RuntimeError", nodes |-> <<>>]}
    \cup {[err |-> "ok", nodes |-> q] :
            q \in {<<>>, <<"t1">>, <<"t2">>, <<"t1", "t2">>, <<"t2", "t1">>}}

NoInput == [own |-> [t \in OwnTypes |-> NoHandler], phantom |-> FALSE,
            mtype |-> "Message", target |-> NoTarget,
            outcome |-> [t \in {"Message"} |-> "ret"],
            next |-> [err |-> "ok", nodes |-> <<>>]]

InitDispatch ==
    /\ d_pc = "idle"
    /\ d_in = NoInput
    /\ d_out = Acc0

\* the table of the node class of the dispatch
DTable == InitSubclass(NodeHandlers, d_in.own)

\* one task: prepare_and_exec(node, message) for a node of a class with the
\* handlers own. Inputs the dispatch never reads are fixed.
Dispatch ==
    /\ d_pc = "idle"
    /\ \E own \in [OwnTypes -> OwnHandlers], phantom \in BOOLEAN,
          mtype \in SentTypes, target \in {NoTarget, "reply"},
          next \in RecordNextResults :
       \E outcome \in [MroTypes(mtype) -> Outcomes] :
         LET r == HandleMessage(InitSubclass(NodeHandlers, own), phantom, mtype,
                                target, outcome, next)
         IN
         /\ \A t \in MroTypes(mtype) :
               (outcome[t] # "ret") =>
                   (Len(r.invoked) > 0 /\ r.invoked[Len(r.invoked)] = t)
         /\ ~r.passed => next = NoInput.next
         /\ d_in' = [own |-> own, phantom |-> phantom, mtype |-> mtype,
                     target |-> target, outcome |-> outcome, next |-> next]
         /\ d_out' = r
         /\ d_pc' = "done"

\* the task is over; the node waits for the next message
DispatchDone ==
    /\ d_pc = "done"
    /\ d_pc' = "idle"
    /\ d_in' = NoInput
    /\ d_out' = Acc0

NextDispatch ==
    \/ Dispatch /\ UNCHANGED <<arenaVars, phantomVars, netVars, lifeVars, portVars>>
    \/ DispatchDone /\ UNCHANGED <<arenaVars, phantomVars, netVars, lifeVars, portVars>>

-----------------------------------------------------------------------------
(* Events (event.py, exception.py) *)

\* the networks: a chain, network 0 the root, network n the child of n - 1
NumNets == 3
\* the subscriber nodes
NumSubs == 2
\* how many events collaborators send in from outside
MaxEvents == 1
\* how many registrations collaborators make
MaxRegs == 2
\* how many unregistrations collaborators make
MaxUnregs == 1

Nets == 0..(NumNets - 1)
Subs == 1..NumSubs
RootNet == 0

\* node.net of a network; RootNetwork.__init__ makes the root its own parent
NetParent(n) == IF n = RootNet THEN RootNet ELSE n - 1

\* the event classes: Event, the exceptions of exception.py, and one class of
\* a collaborator per mode
EvTypes == {"Event", "Exception", "PortError", "ValueError",
            "UnsupportedMessageError", "RuntimeError", "PyKernelError",
            "PropEvent", "ForceEvent", "ThrowEvent"}

ExcTypes == {"Exception", "PortError", "ValueError", "UnsupportedMessageError",
             "RuntimeError", "PyKernelError"}

\* the direct base class of an event class
EvBase(t) ==
    CASE t = "Event" -> "Message"
      [] t \in ExcTypes \ {"Exception"} -> "Exception"
      [] OTHER -> "Event"

\* event.__class__.__mro__ up to Message, most specific first
RECURSIVE EvMro(_)
EvMro(t) == IF t = "Message" THEN <<"Message">> ELSE <<t>> \o EvMro(EvBase(t))

\* the class attribute mode: IGNORE on Event, PROPAGATE on Exception
EvMode(t) ==
    CASE t \in ExcTypes -> "PROPAGATE"
      [] t = "PropEvent" -> "PROPAGATE"
      [] t = "ForceEvent" -> "FORCE_PROPAGATE"
      [] t = "ThrowEvent" -> "THROW_ERR"
      [] OTHER -> "IGNORE"

\* Event.__init__ sets traceback to a tuple; Exception.__init__ then sets it
\* to a list
NewEvent(t) == [type |-> t, traceback |-> <<>>, tbList |-> t \in ExcTypes]

\* Event.add_traceback: copy(self) with traceback + (net,); a list plus a
\* tuple is a TypeError
AddTraceback(ev, net) ==
    IF ev.tbList
    THEN [err |-> "TypeError", ev |-> ev]
    ELSE [err |-> "ok", ev |-> [ev EXCEPT !.traceback = Append(@, net)]]

-----------------------------------------------------------------------------
(* Network (network.py) and RootNetwork (root.py) *)

ToNet(n) == [kind |-> "net", id |-> n]
ToSub(s) == [kind |-> "sub", id |-> s]

\* the part of Network.__message_handler__ that event classes reach
NetworkHandlers ==
    [t \in EvTypes \cup {"Message"} |->
        IF t = "Event" THEN Handler("on_event", {}) ELSE NoHandler]

\* RootNetwork adds on_exception, without PROPAGATE
RootHandlers ==
    [t \in EvTypes \cup {"Message"} |->
        IF t = "Exception" THEN Handler("on_exception", {}) ELSE NetworkHandlers[t]]

NetTable(n) == IF n = RootNet THEN RootHandlers ELSE NetworkHandlers

\* the progress of one task of a network
NetAcc0 == [fns |-> <<>>, sends |-> <<>>, handled |-> FALSE, stop |-> FALSE,
            status |-> "running"]

NetSend(acc, to, ev) == [acc EXCEPT !.sends = Append(@, [to |-> to, ev |-> ev])]

\* the inner loop of on_event: one send per subscriber of the list, in order
RECURSIVE Deliver(_, _, _)
Deliver(acc, subs, e) ==
    IF subs = <<>> THEN acc
    ELSE Deliver(NetSend(acc, ToSub(Head(subs)), e), Tail(subs), e)

\* the outer loop of on_event over the event's __mro__, from position i:
\* [handled, acc]
RECURSIVE FanOut(_, _, _, _, _, _)
FanOut(emap, mro, i, e, handled, acc) ==
    IF i > Len(mro) THEN [handled |-> handled, acc |-> acc]
    ELSE IF mro[i] \notin DOMAIN emap
    THEN FanOut(emap, mro, i + 1, e, handled, acc)
    ELSE FanOut(emap, mro, i + 1, e, TRUE, Deliver(acc, emap[mro[i]], e))

\* Network.on_event, for network n with event map emap
OnEvent(n, emap, ev, acc) ==
    LET a == AddTraceback(ev, n) IN
    IF a.err # "ok" THEN [acc EXCEPT !.status = "pyerror"]
    ELSE LET f == FanOut(emap, EvMro(ev.type), 1, a.ev, FALSE, acc) IN
         IF (~f.handled /\ EvMode(ev.type) = "PROPAGATE")
            \/ EvMode(ev.type) = "FORCE_PROPAGATE"
         THEN NetSend(f.acc, ToNet(NetParent(n)), ev)
         ELSE IF ~f.handled /\ EvMode(ev.type) = "THROW_ERR"
         THEN [NetSend(f.acc, ToNet(NetParent(n)),
                       NewEvent("UnsupportedMessageError"))
                 EXCEPT !.status = "cancelled"]
         ELSE f.acc

\* a root that lets an exception pass
OnException_Ignore(acc) == acc

\* RootNetwork.on_exception: asyncio.get_running_loop().stop()
OnException(acc) == [acc EXCEPT !.stop = TRUE]

\* the handler fn of network n on event ev
NetApply(fn, n, emap, ev, acc) ==
    CASE fn = "on_event" -> OnEvent(n, emap, ev, acc)
      [] fn = "on_exception" -> OnException(acc)

\* Node.handle_message of network n: the walk over the event's __mro__
RECURSIVE NetWalk(_, _, _, _, _, _)
NetWalk(n, emap, ev, mro, i, acc) ==
    IF i > Len(mro)
    THEN IF acc.handled THEN [acc EXCEPT !.status = "done"]
         ELSE [NetSend(acc, ToNet(NetParent(n)), NewEvent("UnsupportedMessageError"))
                 EXCEPT !.status = "cancelled"]
    ELSE LET hdl == NetTable(n)[mro[i]] IN
         IF ~hdl.present THEN NetWalk(n, emap, ev, mro, i + 1, acc)
         ELSE LET a1 == NetApply(hdl.fn, n, emap, ev,
                                 [acc EXCEPT !.fns = Append(@, hdl.fn)])
              IN
              IF a1.status # "running" THEN a1
              ELSE IF StopsWalk(hdl) THEN [a1 EXCEPT !.handled = TRUE, !.status = "done"]
              ELSE NetWalk(n, emap, ev, mro, i + 1, [a1 EXCEPT !.handled = TRUE])

\* prepare_and_exec(network n, ev)
NetHandle(n, emap, ev) == NetWalk(n, emap, ev, EvMro(ev.type), 1, NetAcc0)

\* the event classes collaborators register for
RegTypes == {"Event", "RuntimeError"}

\* the event classes collaborators send
SendTypes == {"Event", "PropEvent", "ForceEvent", "ThrowEvent", "RuntimeError"}

\* list.remove(x): the list without the first occurrence of x
RECURSIVE RemoveFirst(_, _)
RemoveFirst(q, x) ==
    IF q = <<>> THEN <<>>
    ELSE IF Head(q) = x THEN Tail(q)
    ELSE <<Head(q)>> \o RemoveFirst(Tail(q), x)

InSeq(q, x) == \E k \in 1..Len(q) : q[k] = x

\* Network._register_event on a defaultdict(list)
RegisterEvent(emap, t, s) ==
    With(emap, t, Append(IF t \in DOMAIN emap THEN emap[t] ELSE <<>>, s))

\* Network._unregister_event: reading self.event_map[event] creates the key;
\* an unregistered node is a ValueError sent to the network itself
UnregisterEvent(emap, t, s) ==
    LET lst == IF t \in DOMAIN emap THEN emap[t] ELSE <<>> IN
    IF ~InSeq(lst, s)
    THEN [err |-> "ValueError", emap |-> With(emap, t, lst)]
    ELSE [err |-> "ok", emap |-> With(emap, t, RemoveFirst(lst, s))]

NoLast == [op |-> "none", net |-> RootNet, ev |-> NewEvent("Event"),
           fns |-> <<>>, sends |-> <<>>, status |-> "done"]

InitNet ==
    /\ event_map = [n \in Nets |-> [t \in {} |-> <<>>]]
    /\ tasks = <<>>
    /\ n_batch = 0
    /\ stopped = FALSE
    /\ n_reg = [n \in Nets |-> [t \in RegTypes |-> <<>>]]
    /\ n_count = [events |-> 0, regs |-> 0, unregs |-> 0]
    /\ n_last = NoLast

\* a collaborator's net.send_message(net, event) with a fresh event
SendEvent(n, t) ==
    /\ n_count.events < MaxEvents
    /\ tasks' = Append(tasks, [to |-> ToNet(n), ev |-> NewEvent(t)])
    /\ n_count' = [n_count EXCEPT !.events = @ + 1]
    /\ n_last' = [NoLast EXCEPT !.op = "send"]
    /\ UNCHANGED <<event_map, n_batch, stopped, n_reg>>

\* net._register_event(t, s)
Register(n, t, s) ==
    /\ n_count.regs < MaxRegs
    /\ event_map' = [event_map EXCEPT ![n] = RegisterEvent(@, t, s)]
    /\ n_reg' = [n_reg EXCEPT ![n][t] = Append(@, s)]
    /\ n_count' = [n_count EXCEPT !.regs = @ + 1]
    /\ n_last' = [NoLast EXCEPT !.op = "register"]
    /\ UNCHANGED <<tasks, n_batch, stopped>>

\* net._unregister_event(t, s), inside some task
Unregister(n, t, s) ==
    /\ n_count.unregs < MaxUnregs
    /\ LET r == UnregisterEvent(event_map[n], t, s) IN
       /\ event_map' = [event_map EXCEPT ![n] = r.emap]
       /\ n_reg' = IF r.err = "ok"
                   THEN [n_reg EXCEPT ![n][t] = RemoveFirst(@, s)]
                   ELSE n_reg
       /\ tasks' = IF r.err = "ok" THEN tasks
                   ELSE Append(tasks, [to |-> ToNet(n), ev |-> NewEvent(r.err)])
       /\ n_last' = [NoLast EXCEPT !.op = "unregister",
                                   !.status = IF r.err = "ok" THEN "done"
                                              ELSE "cancelled"]
    /\ n_count' = [n_count EXCEPT !.unregs = @ + 1]
    /\ UNCHANGED <<n_batch, stopped>>

\* the sends of a task, appended to the ready queue
RECURSIVE Enqueue(_, _)
Enqueue(q, sends) ==
    IF sends = <<>> THEN q ELSE Enqueue(Append(q, Head(sends)), Tail(sends))

\* the loop runs the next ready task; a stopped loop ends after the tasks of
\* its current iteration
RunTask ==
    /\ tasks # <<>>
    /\ n_batch > 0 \/ ~stopped
    /\ LET t     == Head(tasks)
           batch == IF n_batch = 0 THEN Len(tasks) ELSE n_batch
       IN
       /\ n_batch' = batch - 1
       /\ IF t.to.kind = "net"
          THEN LET r == NetHandle(t.to.id, event_map[t.to.id], t.ev) IN
               /\ tasks' = Enqueue(Tail(tasks), r.sends)
               /\ stopped' = (stopped \/ r.stop)
               /\ n_last' = [op |-> "handle", net |-> t.to.id, ev |-> t.ev,
                             fns |-> r.fns, sends |-> r.sends, status |-> r.status]
          ELSE /\ tasks' = Tail(tasks)
               /\ stopped' = stopped
               /\ n_last' = [NoLast EXCEPT !.op = "deliver", !.ev = t.ev]
    /\ UNCHANGED <<event_map, n_reg, n_count>>

NextNet ==
    \/ \E n \in Nets, t \in SendTypes :
          SendEvent(n, t) /\ UNCHANGED <<arenaVars, phantomVars, dispatchVars, lifeVars, portVars>>
    \/ \E n \in Nets, t \in RegTypes, s \in Subs :
          Register(n, t, s) /\ UNCHANGED <<arenaVars, phantomVars, dispatchVars, lifeVars, portVars>>
    \/ \E n \in Nets, t \in RegTypes, s \in Subs :
          Unregister(n, t, s) /\ UNCHANGED <<arenaVars, phantomVars, dispatchVars, lifeVars, portVars>>
    \/ RunTask /\ UNCHANGED <<arenaVars, phantomVars, dispatchVars, lifeVars, portVars>>

-----------------------------------------------------------------------------
(* Lifecycle: Network's kernel handlers (network.py), RootNetwork (root.py), *)
(* PhantomNetwork (phantom.py), Node.drop / on_finalize (node.py)           *)

\* how many nodes node_new creates
MaxChildren == 2
\* how many other calls collaborators make (initialize, finalize, node_drop)
MaxCalls == 1
\* the count of NodeInitializeMessage of a child is kept up to this value
MaxInits == 2
\* how many forward edges collaborators add with _connect
MaxConnects == 1
\* the count of a node's own NodeDropEvents is kept up to this value
MaxDrops == 2
\* how many times collaborators call finalize() on N and on its nodes
MaxFinalizes == 2
\* how many PortGet requests collaborators send to the nodes
MaxGets == 1

\* the nodes: the root network ToNet(0), the network N = ToNet(1) allocated in
\* the root, the phantom network, and the nodes node_new creates
Phantom == [kind |-> "phantom", id |-> 0]
ToChild(k) == [kind |-> "node", id |-> k]
NoOwner == [kind |-> "none", id |-> 0]
LRoot == ToNet(RootNet)
LNet == ToNet(RootNet + 1)
Children == {ToChild(k) : k \in 1..MaxChildren}
ArenaNets == {LRoot, LNet}
LifeNetworks == ArenaNets \cup {Phantom}
LifeNodes == LifeNetworks \cup Children

\* a message or event of class t; arg is the nid of a NodeDropEvent or the
\* node of a NodeTransferEvent
LMsg(t, arg) == [type |-> t, traceback |-> <<>>, tbList |-> t \in ExcTypes,
                 arg |-> arg]

\* message.__class__.__mro__
LMro(t) == IF t \in MsgTypes THEN MsgMro(t) ELSE EvMro(t)

LifeTypes == {"Message", "NodeInitializeMessage", "NodeFinalizeMessage",
              "PortAction", "PortGet", "DataMessage", "Event",
              "NodeNewEvent", "NodeDropEvent", "NodeTransferEvent",
              "NetworkInitializeEvent", "NetworkFinalizeEvent"} \cup ExcTypes

\* Network.__message_handler__ on the classes of LifeTypes
LifeNetworkHandlers ==
    [t \in LifeTypes |->
        CASE t = "NodeInitializeMessage" -> Handler("Network.on_initialize", {})
          [] t = "NodeFinalizeMessage" -> Handler("Network.on_finalize", {})
          [] t = "PortGet" -> NodeHandlers[t]
          [] t = "Event" -> Handler("on_event", {})
          [] t = "NodeNewEvent" -> Handler("on_node_new", {"PROPAGATE"})
          [] t = "NodeDropEvent" -> Handler("on_node_drop", {"PROPAGATE"})
          [] t = "NodeTransferEvent" -> Handler("on_node_transfer", {"PROPAGATE"})
          [] t = "NetworkInitializeEvent" -> Handler("on_net_initialize", {"PROPAGATE"})
          [] t = "NetworkFinalizeEvent" -> Handler("on_net_finalize", {"PROPAGATE"})
          [] OTHER -> NoHandler]

\* RootNetwork.__message_handler__
LifeRootHandlers ==
    [t \in LifeTypes |->
        CASE t = "Exception" -> Handler("on_exception", {})
          [] t = "NodeDropEvent" -> Handler("RootNetwork.on_node_drop", {"PROPAGATE"})
          [] OTHER -> LifeNetworkHandlers[t]]

\* PhantomNetwork.__message_handler__
LifePhantomHandlers ==
    [t \in LifeTypes |->
        CASE t = "NodeNewEvent" -> Handler("PhantomNetwork.on_node_new", {})
          [] t = "NodeDropEvent" -> Handler("PhantomNetwork.on_node_drop", {})
          [] OTHER -> LifeNetworkHandlers[t]]

\* type(self).__message_handler__
LifeTable(self) ==
    CASE self = LRoot -> LifeRootHandlers
      [] self = LNet -> LifeNetworkHandlers
      [] self = Phantom -> LifePhantomHandlers
      [] OTHER -> [t \in LifeTypes |-> IF t \in MsgTypes THEN NodeHandlers[t]
                                                       ELSE NoHandler]

\* the state the handlers read and write
World == [recs |-> l_recs, stopping |-> l_stopping, nid |-> l_nid, net |-> l_net,
          ph |-> l_ph, inits |-> l_inits, drops |-> l_drops, made |-> l_count.made]

\* the progress of one task
LifeAcc0 == [w |-> World, fns |-> <<>>, sends |-> <<>>, handled |-> FALSE,
             stop |-> FALSE, status |-> "running"]

\* BaseNode.send_message(to, msg)
LSend(acc, to, msg) == [acc EXCEPT !.sends = Append(@, [to |-> to, ev |-> msg])]

\* self.throw(exc), and Exception.throw() inside a task of self: the exception
\* goes to self.net and the task is cancelled
LThrow(acc, self, t) ==
    [LSend(acc, acc.w.net[self], LMsg(t, NoNid)) EXCEPT !.status = "cancelled"]

\* Network.throw_inner: the exception goes to the network itself
LThrowInner(acc, self, t) ==
    [LSend(acc, self, LMsg(t, NoNid)) EXCEPT !.status = "cancelled"]

\* Node.drop: send_event(NodeDropEvent(self.nid))
NodeDrop(acc, self) ==
    LSend([acc EXCEPT !.w.drops[self] = IF @ < MaxDrops THEN @ + 1 ELSE @],
          acc.w.net[self], LMsg("NodeDropEvent", acc.w.nid[self]))

\* the nodes of the records RecordManager.__iter__ yields from slot i on, in
\* its order
RECURSIVE ArenaSeq(_, _)
ArenaSeq(st, i) ==
    IF i > Len(st.records) THEN <<>>
    ELSE IF (i - 1) \in st.id_cache THEN ArenaSeq(st, i + 1)
    ELSE <<st.records[i].node>> \o ArenaSeq(st, i + 1)

\* the nodes of the entries the phantom registry yields from id i on
RECURSIVE PhantomSeq(_, _)
PhantomSeq(st, i) ==
    IF i >= st.count THEN <<>>
    ELSE IF i \notin DOMAIN st.records THEN PhantomSeq(st, i + 1)
    ELSE <<st.records[i].node>> \o PhantomSeq(st, i + 1)

\* "for i in self.records": the nodes, in iteration order
RecordNodes(w, self) ==
    IF self = Phantom THEN PhantomSeq(w.ph, 0) ELSE ArenaSeq(w.recs[self], 1)

\* one send of a message of class t per node of the sequence, in order
RECURSIVE SendEach(_, _, _)
SendEach(acc, nodes, t) ==
    IF nodes = <<>> THEN acc
    ELSE SendEach(LSend(acc, Head(nodes), LMsg(t, NoNid)), Tail(nodes), t)

\* Network.on_initialize
OnInitialize(self, acc) == LSend(acc, self, LMsg("NetworkInitializeEvent", NoNid))

\* Network.on_finalize
OnFinalize(self, acc) == LSend(acc, self, LMsg("NetworkFinalizeEvent", NoNid))

\* Network.on_event of a network whose event_map is empty
OnEventNoSubs(self, ev, acc) ==
    LET a == AddTraceback(ev, self) IN
    IF a.err # "ok" THEN [acc EXCEPT !.status = "pyerror"]
    ELSE IF EvMode(ev.type) \in {"PROPAGATE", "FORCE_PROPAGATE"}
    THEN LSend(acc, acc.w.net[self], ev)
    ELSE IF EvMode(ev.type) = "THROW_ERR"
    THEN LThrow(acc, self, "UnsupportedMessageError")
    ELSE acc

\* the loop of _node_dealloc with disconnect=True: nid is discarded from the
\* forward edges of every record __iter__ yields
Disconnect(st, nid) ==
    [st EXCEPT !.records =
        [i \in 1..Len(st.records) |->
            IF (i - 1) \in RM_iter(st)
            THEN [st.records[i] EXCEPT !.next = @ \ {nid}]
            ELSE st.records[i]]]

\* the orders in which the elements of a set may be iterated
SeqsOf(S) ==
    {q \in [1..Cardinality(S) -> S] : \A i, j \in 1..Cardinality(S) : q[i] = q[j] => i = j}

\* Network._record_next(nid), the ids of the set iterated in the given order:
\* the nodes of the forward edges, or the RuntimeError of the first get that
\* finds no record
RecordNext(st, nid, order) ==
    IF RM_get(st, nid).err # "ok" THEN [err |-> RM_get(st, nid).err, nodes |-> <<>>]
    ELSE IF \E k \in 1..Len(order) : RM_get(st, order[k]).err # "ok"
    THEN [err |-> "RuntimeError", nodes |-> <<>>]
    ELSE [err |-> "ok",
          nodes |-> [k \in 1..Len(order) |-> RM_get(st, order[k]).record.node]]

\* Network._connect(s_id, t_id): t_id is added as it is
Connect(st, s_id, t_id) ==
    IF RM_get(st, s_id).err # "ok" THEN [err |-> RM_get(st, s_id).err, st |-> st]
    ELSE [err |-> "ok",
          st |-> [st EXCEPT !.records[s_id + 1].next = @ \cup {t_id}]]

\* Network._node_alloc of a Node, then the send of on_node_new
NodeAlloc(self, acc, pick) ==
    LET c == ToChild(acc.w.made + 1)
        r == RM_new(acc.w.recs[self], c, pick)
    IN  [acc EXCEPT !.w.recs[self] = [records |-> r.records, id_cache |-> r.id_cache],
                    !.w.nid[c] = r.nid,
                    !.w.net[c] = self,
                    !.w.made = @ + 1]

\* an on_node_new that does not look at the stopping flag
OnNodeNew_Always(self, acc, pick) ==
    LSend(NodeAlloc(self, acc, pick), ToChild(acc.w.made + 1),
          LMsg("NodeInitializeMessage", NoNid))

\* Network.on_node_new
OnNodeNew(self, acc, pick) ==
    IF acc.w.stopping[self] THEN LThrow(acc, self, "RuntimeError")
    ELSE LSend(NodeAlloc(self, acc, pick), ToChild(acc.w.made + 1),
               LMsg("NodeInitializeMessage", NoNid))

\* self.records.drop(nid) inside a task: the arena after it, or the task's end
RecordsDrop(self, acc, nid) ==
    LET d == RM_drop(acc.w.recs[self], nid) IN
    IF d.err = "RuntimeError"
    THEN [acc |-> LThrow(acc, self, "RuntimeError"), node |-> NoOwner]
    ELSE IF d.err # "ok"
    THEN [acc |-> [acc EXCEPT !.status = "pyerror"], node |-> NoOwner]
    ELSE [acc |-> [acc EXCEPT !.w.recs[self] =
                        [records |-> d.records, id_cache |-> d.id_cache]],
          node |-> d.node]

\* Network._node_transfer
NodeTransfer(self, acc, nid) ==
    LET d == RecordsDrop(self, acc, nid) IN
    IF d.acc.status # "running" THEN d.acc
    ELSE LSend(d.acc, Phantom, LMsg("NodeTransferEvent", d.node))

\* Network._node_dealloc(nid, disconnect=True), as on_node_drop calls it; cfg:
\* phantom_net_factory() is not None. Without a
\* phantom network the test "(node := n_ref) is not None" is on the weak
\* reference object itself, which is never None: whether somebody else still
\* holds the node is not read
NodeDealloc(self, acc, nid, cfg) ==
    LET a0 == [acc EXCEPT !.w.recs[self] = Disconnect(@, nid)] IN
    IF cfg THEN NodeTransfer(self, a0, nid)
    ELSE LET d == RecordsDrop(self, a0, nid) IN
         IF d.acc.status # "running" THEN d.acc
         ELSE LThrowInner(d.acc, self, "RuntimeError")

\* Network.on_node_drop
OnNodeDrop(self, acc, nid, cfg) ==
    LET a == NodeDealloc(self, acc, nid, cfg) IN
    IF a.status # "running" THEN a
    ELSE IF a.w.stopping[self] /\ RM_len(a.w.recs[self]) = 0 THEN NodeDrop(a, self)
    ELSE a

\* a root that treats every id like an ordinary network
RootOnNodeDrop_Plain(self, acc, nid, cfg) == OnNodeDrop(self, acc, nid, cfg)

\* RootNetwork.on_node_drop
RootOnNodeDrop(self, acc, nid, cfg) ==
    IF nid = 0 THEN [acc EXCEPT !.stop = TRUE]
    ELSE IF nid # 1 THEN OnNodeDrop(self, acc, nid, cfg)
    ELSE acc

\* Network._node_receive in the phantom network; held: someone else keeps a
\* strong reference to the node, so that the weak entry outlives the task
NodeReceive(acc, node, held) ==
    LET r == BPM_new(acc.w.ph, node) IN
    [acc EXCEPT !.w.ph = [records |-> IF held THEN r.records ELSE acc.w.ph.records,
                          count   |-> r.count],
                !.w.net[node] = Phantom,
                !.w.nid[node] = r.nid]

\* Network.on_node_transfer
OnNodeTransfer(self, acc, node, held) == NodeReceive(acc, node, held)

\* Network.on_net_initialize
OnNetInitialize(self, acc) ==
    SendEach(acc, RecordNodes(acc.w, self), "NodeInitializeMessage")

\* Network.on_net_finalize; "not self.records" of a phantom registry ends in
\* a RecursionError (AbstractRecordManager.__len__ is len(tuple(self)))
OnNetFinalize(self, acc) ==
    LET a == [acc EXCEPT !.w.stopping[self] = TRUE] IN
    IF self = Phantom THEN [a EXCEPT !.status = "pyerror"]
    ELSE IF RM_len(a.w.recs[self]) = 0 THEN NodeDrop(a, self)
    ELSE SendEach(a, RecordNodes(a.w, self), "NodeFinalizeMessage")

\* Node.on_initialize: pass
NodeOnInitialize(self, acc) ==
    [acc EXCEPT !.w.inits[self] = IF @ < MaxInits THEN @ + 1 ELSE @]

\* Node.on_finalize: self.drop()
NodeOnFinalize(self, acc) == NodeDrop(acc, self)

\* Node.on_port_get; in.port: the port named by the request is exported,
\* readable and has a value
NodeOnPortGet(self, acc, port) ==
    IF port THEN acc ELSE LThrow(acc, self, "PortError")

\* BaseNode.pass_down(message) of node self
LPassDown(self, acc, t, order) ==
    LET n == RecordNext(acc.w.recs[acc.w.net[self]], acc.w.nid[self], order) IN
    IF n.err # "ok" THEN LThrow(acc, self, n.err)
    ELSE SendEach(acc, n.nodes, t)

\* the SEND_RET part of handle_message for a message that is not reflected
LSendRet(self, hdl, order, acc) ==
    IF "SEND_RET" \in hdl.flag THEN LPassDown(self, acc, "DataMessage", order) ELSE acc

\* the handler fn of node self on msg; in: what the handler reads from outside
LifeApply(fn, self, msg, in, acc) ==
    CASE fn = "Network.on_initialize" -> OnInitialize(self, acc)
      [] fn = "Network.on_finalize" -> OnFinalize(self, acc)
      [] fn = "on_event" -> OnEventNoSubs(self, msg, acc)
      [] fn = "on_node_new" -> OnNodeNew(self, acc, in.pick)
      [] fn = "on_node_drop" -> OnNodeDrop(self, acc, msg.arg, in.cfg)
      [] fn = "RootNetwork.on_node_drop" -> RootOnNodeDrop(self, acc, msg.arg, in.cfg)
      [] fn = "on_node_transfer" -> OnNodeTransfer(self, acc, msg.arg, in.held)
      [] fn = "on_net_initialize" -> OnNetInitialize(self, acc)
      [] fn = "on_net_finalize" -> OnNetFinalize(self, acc)
      [] fn = "on_exception" -> OnException(acc)
      [] fn = "PhantomNetwork.on_node_new" -> LThrow(acc, self, "UnsupportedMessageError")
      [] fn = "PhantomNetwork.on_node_drop" -> acc
      [] fn = "on_initialize" -> NodeOnInitialize(self, acc)
      [] fn = "on_finalize" -> NodeOnFinalize(self, acc)
      [] fn = "on_port_get" -> NodeOnPortGet(self, acc, in.port)

\* Node.handle_message of node self: the walk over the message's __mro__
RECURSIVE LifeWalk(_, _, _, _, _, _)
LifeWalk(self, msg, mro, i, in, acc) ==
    IF i > Len(mro)
    THEN IF acc.handled THEN [acc EXCEPT !.status = "done"]
         ELSE LThrow(acc, self, "UnsupportedMessageError")
    ELSE LET hdl == LifeTable(self)[mro[i]] IN
         IF ~hdl.present THEN LifeWalk(self, msg, mro, i + 1, in, acc)
         ELSE LET a0 == LifeApply(hdl.fn, self, msg, in,
                                  [acc EXCEPT !.fns = Append(@, hdl.fn)])
                  a1 == IF a0.status # "running" THEN a0
                        ELSE LSendRet(self, hdl, in.order, a0)
              IN
              IF a1.status # "running" THEN a1
              ELSE IF StopsWalk(hdl) THEN [a1 EXCEPT !.handled = TRUE, !.status = "done"]
              ELSE LifeWalk(self, msg, mro, i + 1, in, [a1 EXCEPT !.handled = TRUE])

\* prepare_and_exec(self, msg): handle_message first refuses every message to
\* a node whose network is the phantom network
LifeHandle(self, msg, in) ==
    IF World.net[self] = Phantom
    THEN LThrow(LifeAcc0, self, "RuntimeError")
    ELSE LifeWalk(self, msg, LMro(msg.type), 1, in, LifeAcc0)

\* the records of the root after RootNetwork.__init__ and the allocation of N
InitRootRecords == <<NodeRecord(LRoot), NodeRecord(Phantom), NodeRecord(LNet)>>

\* the ids a caller may pass to node_drop: every slot there can be, one below
\* and one above
LifeArgIds == (-1)..(Len(InitRootRecords) + MaxChildren)

LifeNoLast == [op |-> "none", to |-> NoOwner, msg |-> LMsg("Message", NoNid),
               from |-> NoOwner,
               fns |-> <<>>, sends |-> <<>>, status |-> "done", held |-> FALSE,
               pre |-> [recs |-> <<>>, stopping |-> <<>>, made |-> 0]]

\* the state after RootNetwork() and, with user, root._node_alloc(Network);
\* cfg: the builtin package has set phantom_net_factory
InitLife(cfg, user) ==
    /\ l_cfg = cfg
    /\ l_recs = [n \in ArenaNets |->
                    [records  |-> IF n # LRoot THEN <<>>
                                  ELSE IF user THEN InitRootRecords
                                  ELSE SubSeq(InitRootRecords, 1, 2),
                     id_cache |-> {}]]
    /\ l_stopping = [n \in LifeNetworks |-> FALSE]
    /\ l_nid = [n \in LifeNodes |->
                   CASE n = LRoot -> 0
                     [] n = Phantom -> 1
                     [] n = LNet /\ user -> 2
                     [] OTHER -> NoNid]
    /\ l_net = [n \in LifeNodes |->
                   IF n \in {LRoot, Phantom} \/ (n = LNet /\ user) THEN LRoot
                   ELSE NoOwner]
    /\ l_ph = [records |-> [i \in {} |-> WeakValue(NoOwner)], count |-> 0]
    /\ l_inits = [c \in Children |-> 0]
    /\ l_drops = [n \in LifeNodes |-> 0]
    /\ l_tasks = <<>>
    /\ l_from = <<>>
    /\ l_batch = 0
    /\ l_stopped = FALSE
    /\ l_count = [news |-> 0, made |-> 0, calls |-> 0, connects |-> 0, gets |-> 0,
                  fins |-> 0]
    /\ l_last = LifeNoLast

\* a call from outside that sends msg to node to, a node that exists
LifeCall(op, to, msg) ==
    /\ l_net[to] # NoOwner
    /\ l_tasks' = Append(l_tasks, [to |-> to, ev |-> msg])
    /\ l_from' = Append(l_from, NoOwner)
    /\ l_last' = [LifeNoLast EXCEPT !.op = op, !.to = to]
    /\ UNCHANGED <<l_cfg, l_recs, l_stopping, l_nid, l_net, l_ph, l_inits, l_drops,
                   l_batch, l_stopped>>

\* net.node_new(Node)
CallNodeNew(n) ==
    /\ l_count.news < MaxChildren
    /\ l_count' = [l_count EXCEPT !.news = @ + 1]
    /\ LifeCall("node_new", n, LMsg("NodeNewEvent", NoNid))

\* net.node_drop(nid)
CallNodeDrop(n, nid) ==
    /\ l_count.calls < MaxCalls
    /\ l_count' = [l_count EXCEPT !.calls = @ + 1]
    /\ LifeCall("node_drop", n, LMsg("NodeDropEvent", nid))

\* net.initialize(); for the root, kes_init()
CallInitialize(n) ==
    /\ l_count.calls < MaxCalls
    /\ l_count' = [l_count EXCEPT !.calls = @ + 1]
    /\ LifeCall("initialize", n, LMsg("NodeInitializeMessage", NoNid))

\* net.finalize(); for the root, kes_finalize()
CallFinalize(n) ==
    /\ l_count.calls < MaxCalls
    /\ l_count' = [l_count EXCEPT !.calls = @ + 1]
    /\ LifeCall("finalize", n, LMsg("NodeFinalizeMessage", NoNid))

\* kes_finalize(force=True): root.drop()
CallForceFinalize ==
    /\ l_count.calls < MaxCalls
    /\ l_count' = [l_count EXCEPT !.calls = @ + 1]
    /\ LifeCall("force", l_net[LRoot], LMsg("NodeDropEvent", l_nid[LRoot]))

\* net._connect(s_id, t_id), called from outside the tasks: a source id
\* without record is an error for the caller and changes nothing
CallConnect(n, s_id, t_id) ==
    /\ l_count.connects < MaxConnects
    /\ l_count' = [l_count EXCEPT !.connects = @ + 1]
    /\ l_recs' = [l_recs EXCEPT ![n] = Connect(@, s_id, t_id).st]
    /\ l_last' = [LifeNoLast EXCEPT !.op = "connect", !.to = n,
                                    !.status = IF Connect(l_recs[n], s_id, t_id).err = "ok"
                                               THEN "done" ELSE "error"]
    /\ UNCHANGED <<l_cfg, l_stopping, l_nid, l_net, l_ph, l_inits, l_drops, l_tasks,
                   l_from, l_batch, l_stopped>>

\* a PortGet request sent to a node node_new has created
CallPortGet(c) ==
    /\ l_count.gets < MaxGets
    /\ l_count' = [l_count EXCEPT !.gets = @ + 1]
    /\ LifeCall("port_get", c, LMsg("PortGet", NoNid))

\* x.finalize() of the network N or of a node node_new has created
CallNodeFinalize(x) ==
    /\ l_count.fins < MaxFinalizes
    /\ l_count' = [l_count EXCEPT !.fins = @ + 1]
    /\ LifeCall("finalize", x, LMsg("NodeFinalizeMessage", NoNid))

\* the loop runs the next ready task; held: at the drop or the transfer of a
\* node, somebody outside the arena holds a strong reference to it
LifeRunTask ==
    /\ l_tasks # <<>>
    /\ l_batch > 0 \/ ~l_stopped
    /\ LET t     == Head(l_tasks)
           batch == IF l_batch = 0 THEN Len(l_tasks) ELSE l_batch
           picks == IF t.ev.type = "NodeNewEvent" /\ t.to \in ArenaNets
                       /\ l_recs[t.to].id_cache # {}
                    THEN PopChoices(l_recs[t.to].id_cache) ELSE {NoPick}
           helds == IF t.ev.type = "NodeTransferEvent"
                       \/ (t.ev.type = "NodeDropEvent" /\ ~l_cfg)
                    THEN BOOLEAN ELSE {FALSE}
           ports == IF t.ev.type = "PortGet" THEN BOOLEAN ELSE {TRUE}
           orders == IF t.ev.type = "PortGet" /\ l_net[t.to] \in ArenaNets
                        /\ RM_get(l_recs[l_net[t.to]], l_nid[t.to]).err = "ok"
                     THEN SeqsOf(RM_get(l_recs[l_net[t.to]], l_nid[t.to]).record.next)
                     ELSE {<<>>}
       IN
       \E pick \in picks, held \in helds, port \in ports, order \in orders :
         \E r \in {LifeHandle(t.to, t.ev, [cfg |-> l_cfg, pick |-> pick, held |-> held,
                                          port |-> port, order |-> order])} :
         /\ l_recs' = r.w.recs
         /\ l_stopping' = r.w.stopping
         /\ l_nid' = r.w.nid
         /\ l_net' = r.w.net
         /\ l_ph' = r.w.ph
         /\ l_inits' = r.w.inits
         /\ l_drops' = r.w.drops
         /\ l_from' = Tail(l_from) \o [i \in 1..Len(r.sends) |-> t.to]
         /\ l_count' = [l_count EXCEPT !.made = r.w.made]
         /\ l_tasks' = Enqueue(Tail(l_tasks), r.sends)
         /\ l_batch' = batch - 1
         /\ l_stopped' = (l_stopped \/ r.stop)
         /\ l_last' = [op |-> "handle", to |-> t.to, msg |-> t.ev,
                       from |-> Head(l_from), fns |-> r.fns,
                       sends |-> r.sends, status |-> r.status, held |-> held,
                       pre |-> [recs |-> l_recs, stopping |-> l_stopping,
                                made |-> l_count.made]]
    /\ UNCHANGED l_cfg

NextLife ==
    \/ \E n \in ArenaNets :
          CallNodeNew(n) /\ UNCHANGED <<arenaVars, phantomVars, dispatchVars, netVars, portVars>>
    \/ \E n \in ArenaNets, nid \in LifeArgIds :
          CallNodeDrop(n, nid) /\ UNCHANGED <<arenaVars, phantomVars, dispatchVars, netVars, portVars>>
    \/ \E n \in ArenaNets :
          CallInitialize(n) /\ UNCHANGED <<arenaVars, phantomVars, dispatchVars, netVars, portVars>>
    \/ \E n \in ArenaNets :
          CallFinalize(n) /\ UNCHANGED <<arenaVars, phantomVars, dispatchVars, netVars, portVars>>
    \/ CallForceFinalize /\ UNCHANGED <<arenaVars, phantomVars, dispatchVars, netVars, portVars>>
    \/ LifeRunTask /\ UNCHANGED <<arenaVars, phantomVars, dispatchVars, netVars, portVars>>

\* the ids collaborators pass to _connect, and to node_drop where edges are
\* followed: in the root, the id of the root, the id of N and the one after
EdgeIds == {0, 2, 3}

\* creation and drop of nodes of the root, forward edges between its records
\* and requests to the nodes
NextEdge ==
    \/ CallNodeNew(LRoot) /\ UNCHANGED <<arenaVars, phantomVars, dispatchVars, netVars, portVars>>
    \/ \E nid \in EdgeIds :
          CallNodeDrop(LRoot, nid) /\ UNCHANGED <<arenaVars, phantomVars, dispatchVars, netVars, portVars>>
    \/ \E s_id \in EdgeIds, t_id \in EdgeIds :
          CallConnect(LRoot, s_id, t_id) /\ UNCHANGED <<arenaVars, phantomVars, dispatchVars, netVars, portVars>>
    \/ \E c \in Children :
          CallPortGet(c) /\ UNCHANGED <<arenaVars, phantomVars, dispatchVars, netVars, portVars>>
    \/ LifeRunTask /\ UNCHANGED <<arenaVars, phantomVars, dispatchVars, netVars, portVars>>

-----------------------------------------------------------------------------
(* Ports: Node._export, Node.on_port_get / on_port_set, AttrPort (node.py), *)
(* RecordPort (network.py)                                                  *)

\* how many _export calls a collaborator makes
MaxExports == 2

\* the port names requests may carry
PortNames == {"a", "b"}

\* PortFlag and its DEFAULT
PortFlags == {"READABLE", "WRITABLE"}
PortDefault == {"READABLE"}

\* the values of attributes and of PortSet requests: a plain Python value, or
\* a node that lives in another network
PlainValue == "value"
NodeValue == "node"
PortValues == {PlainValue, NodeValue}

\* getattr of an attribute nobody has set raises AttributeError
Unset == "unset"

\* name not in self.port_map
NoPort == [present |-> FALSE, kind |-> "none", flag |-> {}]

\* AttrPort(node, name, flag) and RecordPort(node, name, nid, flag)
AttrPort(flag) == [present |-> TRUE, kind |-> "attr", flag |-> flag]
RecordPort(flag) == [present |-> TRUE, kind |-> "record", flag |-> flag]

\* how a port handler ends: it returns value, or node `to` throws the kernel
\* exception exc, or a Python error is raised
PortReturn(value, attrs) ==
    [out |-> "ret", exc |-> "none", to |-> "none", value |-> value, attrs |-> attrs]
PortThrow(exc, to, attrs) ==
    [out |-> "throw", exc |-> exc, to |-> to, value |-> Unset, attrs |-> attrs]
PortPyError(attrs) ==
    [out |-> "pyerr", exc |-> "none", to |-> "none", value |-> Unset, attrs |-> attrs]

\* AttrPort.get
AttrPortGet(port, attrs, name) ==
    IF "READABLE" \notin port.flag THEN PortThrow("PortError", "net", attrs)
    ELSE IF attrs[name] = Unset THEN PortPyError(attrs)
    ELSE PortReturn(attrs[name], attrs)

\* AttrPort.set
AttrPortSet(port, attrs, name, value) ==
    IF "WRITABLE" \notin port.flag THEN PortThrow("PortError", "net", attrs)
    ELSE PortReturn("None", [attrs EXCEPT ![name] = value])

\* RecordPort.get; live: records.get(self.nid) finds the record
RecordPortGet(port, attrs, live) ==
    IF "READABLE" \notin port.flag THEN PortThrow("PortError", "net", attrs)
    ELSE IF ~live THEN PortThrow("RuntimeError", "net", attrs)
    ELSE PortReturn(NodeValue, attrs)

\* RecordPort.set(node): "node.throw(PortError(...))" is called on the value
\* to be written, so the exception goes to that node's network, and a value
\* that is not a node has no throw
RecordPortSet(port, attrs, value) ==
    IF value = NodeValue THEN PortThrow("PortError", "othernet", attrs)
    ELSE PortPyError(attrs)

\* Node._get_port
GetPort(ports, attrs, name, live) ==
    IF ~ports[name].present THEN PortThrow("PortError", "net", attrs)
    ELSE IF ports[name].kind = "attr" THEN AttrPortGet(ports[name], attrs, name)
    ELSE RecordPortGet(ports[name], attrs, live)

\* Node._set_port
SetPort(ports, attrs, name, value) ==
    IF ~ports[name].present THEN PortThrow("PortError", "net", attrs)
    ELSE IF ports[name].kind = "attr"
    THEN AttrPortSet(ports[name], attrs, name, value)
    ELSE RecordPortSet(ports[name], attrs, value)

\* Node.on_port_get and Node.on_port_set
OnPort(mtype, ports, attrs, name, value, live) ==
    IF mtype = "PortGet" THEN GetPort(ports, attrs, name, live)
    ELSE SetPort(ports, attrs, name, value)

\* the sends of the task: those of handle_message, where the exception a port
\* handler threw is the one the handler names
PortSends(h, d) ==
    IF h.out = "throw" THEN <<[to |-> h.to, msg |-> h.exc]>> ELSE d.sent

PortNoLast == [op |-> "none", mtype |-> "Message", name |-> "a", value |-> PlainValue,
               target |-> NoTarget, out |-> "ret", status |-> "done", sent |-> <<>>,
               pre |-> [ports |-> <<>>, attrs |-> <<>>]]

\* Node.__init__ of a class without exported attributes
InitPort ==
    /\ pt_ports = [n \in PortNames |-> NoPort]
    /\ pt_attrs = [n \in PortNames |-> Unset]
    /\ pt_count = 0
    /\ pt_last = PortNoLast

\* node._export(name, flag), and with record: net._export(name, flag, nid=...)
PortExport(name, flag, record) ==
    /\ pt_count < MaxExports
    /\ pt_ports' = [pt_ports EXCEPT ![name] = IF record THEN RecordPort(flag)
                                              ELSE AttrPort(flag)]
    /\ pt_count' = pt_count + 1
    /\ pt_last' = [PortNoLast EXCEPT !.op = "export", !.name = name]
    /\ UNCHANGED pt_attrs

\* one task: the node handles PortGet(name) or PortSet(name, value), plain or
\* as the raw message of ReflectMessage(target, ...)
PortRequest(mtype, name, value, target, next, live) ==
    /\ mtype = "PortGet" => value = PlainValue
    /\ \E h \in {OnPort(mtype, pt_ports, pt_attrs, name, value, live)} :
       \E d \in {HandleMessage(NodeHandlers, FALSE, mtype, target,
                               [t \in MroTypes(mtype) |->
                                   IF t = mtype THEN h.out ELSE "ret"],
                               next)} :
         /\ ~d.passed => next = NoInput.next
         /\ (pt_ports[name].kind # "record" \/ mtype # "PortGet") => live
         /\ pt_attrs' = h.attrs
         /\ pt_last' = [op |-> "request", mtype |-> mtype, name |-> name,
                        value |-> value, target |-> target, out |-> h.out,
                        status |-> d.status, sent |-> PortSends(h, d),
                        pre |-> [ports |-> pt_ports, attrs |-> pt_attrs]]
    /\ UNCHANGED <<pt_ports, pt_count>>

NextPort ==
    \/ \E name \in PortNames, flag \in SUBSET PortFlags, record \in BOOLEAN :
          PortExport(name, flag, record)
             /\ UNCHANGED <<arenaVars, phantomVars, dispatchVars, netVars, lifeVars>>
    \/ \E mtype \in {"PortGet", "PortSet"}, name \in PortNames, value \in PortValues,
          target \in {NoTarget, "reply"}, next \in RecordNextResults,
          live \in BOOLEAN :
          PortRequest(mtype, name, value, target, next, live)
             /\ UNCHANGED <<arenaVars, phantomVars, dispatchVars, netVars, lifeVars>>

Init ==
    InitArena /\ InitPhantomOf("core") /\ InitDispatch /\ InitNet /\ InitLife(FALSE, TRUE) /\ InitPort

InitPhantomAny ==
    /\ InitArena
    /\ \E impl \in {"core", "builtin"} : InitPhantomOf(impl)
    /\ InitDispatch
    /\ InitNet
    /\ InitLife(FALSE, TRUE)
    /\ InitPort

InitLifeAny ==
    /\ InitArena
    /\ InitPhantomOf("core")
    /\ InitDispatch
    /\ InitNet
    /\ \E cfg \in BOOLEAN, user \in BOOLEAN : InitLife(cfg, user)
    /\ InitPort

\* creation, drop and finalization of the nodes of N, and finalization of N:
\* the ids of N's arena are freed and given out again
NextReuse ==
    \/ CallNodeNew(LNet) /\ UNCHANGED <<arenaVars, phantomVars, dispatchVars, netVars, portVars>>
    \/ \E nid \in 0..(MaxChildren - 1) :
          CallNodeDrop(LNet, nid) /\ UNCHANGED <<arenaVars, phantomVars, dispatchVars, netVars, portVars>>
    \/ \E x \in {LNet} \cup Children :
          CallNodeFinalize(x) /\ UNCHANGED <<arenaVars, phantomVars, dispatchVars, netVars, portVars>>
    \/ LifeRunTask /\ UNCHANGED <<arenaVars, phantomVars, dispatchVars, netVars, portVars>>

\* the root with the network N allocated in it, with or without a phantom
\* network configured
InitEdge ==
    /\ InitArena /\ InitPhantomOf("core") /\ InitDispatch /\ InitNet /\ InitPort
    /\ \E cfg \in BOOLEAN : InitLife(cfg, TRUE)

SpecArena == Init /\ [][NextArena]_vars

SpecPhantom == InitPhantomAny /\ [][NextPhantom]_vars

SpecDispatch == Init /\ [][NextDispatch]_vars

SpecNet == Init /\ [][NextNet]_vars

SpecLife == InitLifeAny /\ [][NextLife]_vars

SpecPort == Init /\ [][NextPort]_vars

SpecEdge == InitEdge /\ [][NextEdge]_vars

SpecReuse == InitEdge /\ [][NextReuse]_vars

\* the loop runs a ready task as long as it has not been stopped
SpecLifeFair ==
    SpecLife /\ WF_vars(LifeRunTask /\ UNCHANGED <<arenaVars, phantomVars, dispatchVars, netVars, portVars>>)

-----------------------------------------------------------------------------
(* Claims about the strong arena, checked under SpecArena *)

SetMin(s) == CHOOSE x \in s : \A y \in s : x <= y
SetMax(s) == CHOOSE x \in s : \A y \in s : x >= y

\* C1: new never returns the id of a record that is live at the call, no two
\* members of the arena carry the same nid, and get(id) yields the node handed
\* to the new() that returned id for as long as id has not been dropped.
C1_IdStability ==
    /\ (a_last.op = "new" => a_last.ret \notin a_last.live)
    /\ \A i \in DOMAIN a_live :
          /\ RM_get(ArenaState, i).err = "ok"
          /\ RM_get(ArenaState, i).record.node = a_live[i]
          /\ nid_of[a_live[i]] = i
    /\ \A n, m \in ArenaMembers : n # m => nid_of[n] # nid_of[m]

\* a freed id has just been handed out again while another record is live
C1_Witness ==
    /\ a_last.op = "new"
    /\ a_last.pre.id_cache # {}
    /\ a_last.live # {}
    /\ Cardinality(DOMAIN a_live) >= 2

\* C2 (as claimed): get(id) and drop(id) for an id that is out of bounds or
\* free fail with a RuntimeError and leave the arena unchanged.
C2_BadIdRuntimeError ==
    (/\ a_last.op \in {"get", "drop"}
     /\ \/ a_last.arg < 0
        \/ a_last.arg >= Len(a_last.pre.records)
        \/ a_last.arg \in a_last.pre.id_cache)
    => (a_last.err = "RuntimeError" /\ ArenaState = a_last.pre)

\* C3: the last storage slot, if any, is live and every free id lies strictly
\* below it; when no free id lies below a live id the storage length is the
\* number of live records; dropping the highest live id truncates the storage
\* to just above the highest id that stays live.
C3_TailCompaction ==
    /\ (Len(records) > 0 => (Len(records) - 1) \notin id_cache)
    /\ \A f \in id_cache : 0 <= f /\ f < Len(records) - 1
    /\ ((\A f \in id_cache : \A i \in DOMAIN a_live : ~(f < i))
          => (Len(records) = Cardinality(DOMAIN a_live)
              /\ RM_len(ArenaState) = Cardinality(DOMAIN a_live)))
    /\ ((a_last.op = "drop" /\ a_last.err = "ok"
          /\ a_last.arg = Len(a_last.pre.records) - 1)
          => LET rest == a_last.live \ {a_last.arg} IN
             /\ Len(records) = (IF rest = {} THEN 0 ELSE SetMax(rest) + 1)
             /\ records = SubSeq(a_last.pre.records, 1, Len(records)))

\* dropping the last slot has truncated past a free slot and left a live one
C3_Witness ==
    /\ a_last.op = "drop"
    /\ a_last.err = "ok"
    /\ a_last.arg = Len(a_last.pre.records) - 1
    /\ Len(records) < Len(a_last.pre.records) - 1
    /\ Len(records) > 0

\* C4 (as claimed): with a freed id, new returns the smallest freed id and does
\* not grow the storage; with none it returns the storage length and grows the
\* storage by one slot.
C4_SmallestFreedId ==
    a_last.op = "new" =>
        IF a_last.pre.id_cache # {}
        THEN /\ a_last.ret = SetMin(a_last.pre.id_cache)
             /\ Len(records) = Len(a_last.pre.records)
        ELSE /\ a_last.ret = Len(a_last.pre.records)
             /\ Len(records) = Len(a_last.pre.records) + 1

\* C4 (amended): with a freed id, new returns one of the freed ids (whichever
\* set.pop yields), takes it out of the free set, stores the node there and does
\* not grow the storage; with none it returns the storage length and grows the
\* storage by one slot.
C4_SomeFreedId ==
    a_last.op = "new" =>
        IF a_last.pre.id_cache # {}
        THEN /\ a_last.ret \in a_last.pre.id_cache
             /\ id_cache = a_last.pre.id_cache \ {a_last.ret}
             /\ Len(records) = Len(a_last.pre.records)
             /\ records[a_last.ret + 1].node = a_last.node
        ELSE /\ a_last.ret = Len(a_last.pre.records)
             /\ Len(records) = Len(a_last.pre.records) + 1
             /\ records[Len(records)].node = a_last.node
             /\ id_cache = {}

\* new has reused a freed id that is not the smallest one
C4_Witness ==
    /\ a_last.op = "new"
    /\ a_last.pre.id_cache # {}
    /\ a_last.ret # SetMin(a_last.pre.id_cache)

-----------------------------------------------------------------------------
(* Claims about the phantom registry, checked under SpecPhantom *)

\* C5: for a node registered under id (and not dropped from the registry),
\* get(id) returns that node while the node is alive; once the collaborators
\* have released it get(id) fails with RuntimeError and the entry is gone; the
\* registry never keeps a node alive.
C5_WeakNonOwnership ==
    /\ (p_last.op = "get" /\ p_last.nid \in DOMAIN p_given
          /\ p_last.nid \notin p_dropped)
         => IF p_given[p_last.nid] \in p_ext
            THEN p_last.err = "ok" /\ p_last.node = p_given[p_last.nid]
            ELSE p_last.err = "RuntimeError" /\ p_last.nid \notin DOMAIN p_records
    /\ \A n \in PNodes : n \notin p_ext => n \notin Alive

\* get has just failed on the entry of a node that died after it was registered
C5_Witness ==
    /\ p_last.op = "get"
    /\ p_last.nid \in DOMAIN p_given
    /\ p_last.nid \notin p_dropped
    /\ p_given[p_last.nid] \notin p_ext
    /\ p_last.err = "RuntimeError"

\* C6: the registry issues the ids 0, 1, 2, ... in call order, so no id is
\* ever issued twice, whatever was dropped or pruned in between.
C6_IdsNeverReused ==
    /\ \A k \in 1..Len(p_issued) : p_issued[k] = k - 1
    /\ p_count = Len(p_issued)

\* a new has been issued after an earlier entry was dropped or pruned
C6_Witness ==
    /\ p_last.op = "new"
    /\ p_last.nid >= 1
    /\ \E i \in DOMAIN p_given : i < p_last.nid /\ i \notin DOMAIN p_records

-----------------------------------------------------------------------------
(* Claims about dispatch, checked under SpecDispatch *)

\* some type of the dispatched message's hierarchy has a handler
HasHandler == \E k \in 1..Len(MsgMro(d_in.mtype)) : DTable[MsgMro(d_in.mtype)[k]].present

\* the class has a PROPAGATE handler for Base and a handler without PROPAGATE
\* for Derived, and a Derived message was dispatched
C7_Case ==
    /\ d_pc = "done"
    /\ d_in.mtype = "Derived"
    /\ DTable["Base"].present /\ "PROPAGATE" \in DTable["Base"].flag
    /\ DTable["Derived"].present /\ "PROPAGATE" \notin DTable["Derived"].flag

\* C7 (as claimed): with a PROPAGATE handler for the base type and a handler
\* without PROPAGATE for the derived type, a derived message invokes both
\* handlers, the derived one first.
C7_BothInvoked == C7_Case => d_out.invoked = <<"Derived", "Base">>

\* C7 (amended): in that case only the derived-type handler is invoked, the walk
\* stops after it and the base-type handler does not run (a node owned by the
\* phantom network invokes neither).
C7_DerivedOnly ==
    C7_Case => d_out.invoked = (IF d_in.phantom THEN <<>> ELSE <<"Derived">>)

\* the derived handler returned and the dispatch ended without the base handler
C7_Witness ==
    /\ C7_Case
    /\ ~d_in.phantom
    /\ d_out.status = "done"
    /\ d_out.invoked = <<"Derived">>

\* C8 (as claimed): a message no type of whose hierarchy has a handler invokes
\* no handler, sends an UnsupportedMessageError to the owning network and
\* cancels the task.
C8_Unsupported ==
    (d_pc = "done" /\ ~HasHandler) =>
        /\ d_out.invoked = <<>>
        /\ d_out.sent = <<[to |-> "net", msg |-> "UnsupportedMessageError"]>>
        /\ d_out.status = "cancelled"

\* C8 (amended): such a message invokes no handler, sends exactly one exception
\* to the owning network and cancels the task; the exception is an
\* UnsupportedMessageError, unless the owning network is a PhantomNetwork, where
\* it is the RuntimeError every message to a phantom node ends in.
C8_UnsupportedOrPhantom ==
    (d_pc = "done" /\ ~HasHandler) =>
        /\ d_out.invoked = <<>>
        /\ d_out.sent = <<[to |-> "net",
                           msg |-> IF d_in.phantom THEN "RuntimeError"
                                   ELSE "UnsupportedMessageError"]>>
        /\ d_out.status = "cancelled"

\* an unhandled message has been dispatched to a node of an ordinary network
C8_Witness ==
    /\ d_pc = "done"
    /\ ~HasHandler
    /\ ~d_in.phantom
    /\ d_out.sent = <<[to |-> "net", msg |-> "UnsupportedMessageError"]>>

-----------------------------------------------------------------------------
(* Claims about event routing, checked under SpecNet *)

\* the sends of the last task that went to subscribers / to networks
Deliveries == SelectSeq(n_last.sends, LAMBDA m : m.to.kind = "sub")
Forwards == SelectSeq(n_last.sends, LAMBDA m : m.to.kind = "net")

\* the subscribers registered on the handling network for type t
RegOf(t) == IF t \in RegTypes THEN n_reg[n_last.net][t] ELSE <<>>

\* C9 (as claimed): if S1 and then S2 are registered for type E on a network,
\* every event of type E the network handles is delivered to both, and the
\* delivery to S1 is scheduled before the delivery to S2.
C9_FanOutInOrder ==
    n_last.op = "handle" =>
        LET subs == RegOf(n_last.ev.type) IN
        \A i, j \in 1..Len(subs) :
            i < j =>
                \E p, q \in 1..Len(Deliveries) :
                    /\ p < q
                    /\ Deliveries[p].to = ToSub(subs[i])
                    /\ Deliveries[q].to = ToSub(subs[j])
                    /\ Deliveries[p].ev.type = n_last.ev.type
                    /\ Deliveries[q].ev.type = n_last.ev.type

\* no type of the handled event's hierarchy has a subscriber on the network
NoSubscribers ==
    \A k \in 1..Len(EvMro(n_last.ev.type)) : RegOf(EvMro(n_last.ev.type)[k]) = <<>>

\* C10 (as claimed): a network handling a PROPAGATE event none of whose types
\* has subscribers forwards it to its parent exactly once, and the forwarded
\* event's traceback is the received one with the forwarding network appended
\* (so that after k hops it lists the k networks in order).
C10_ForwardWithTraceback ==
    (n_last.op = "handle" /\ EvMode(n_last.ev.type) = "PROPAGATE" /\ NoSubscribers) =>
        /\ Len(Forwards) = 1
        /\ Forwards[1].to = ToNet(NetParent(n_last.net))
        /\ Forwards[1].ev.type = n_last.ev.type
        /\ Forwards[1].ev.traceback = Append(n_last.ev.traceback, n_last.net)

-----------------------------------------------------------------------------
(* Claims about the lifecycle, checked under SpecLife *)

\* the nodes node_new has created so far
Created == {c \in Children : l_net[c] # NoOwner}

\* C11 (as claimed): a node created through node_new handles exactly one
\* NodeInitializeMessage over its lifetime, whatever else its network receives:
\* no created node ever handles a second one.
C11_InitializedOnce == \A c \in Created : l_inits[c] <= 1

\* the last task was node n handling a message of class t
Handled(n, t) == l_last.op = "handle" /\ l_last.to = n /\ l_last.msg.type = t

\* the sends of the last task that carry a message of class t
SendsOf(t) == SelectSeq(l_last.sends, LAMBDA m : m.ev.type = t)

\* the last task sent a NodeDropEvent for n's own id to n's network
DropsItself(n) ==
    \E i \in 1..Len(l_last.sends) :
        /\ l_last.sends[i].to = l_net[n]
        /\ l_last.sends[i].ev.type = "NodeDropEvent"
        /\ l_last.sends[i].ev.arg = l_nid[n]

\* the finalization of a running network with children: one
\* NodeFinalizeMessage per live child, in the arena's order
FinalizeSendsOnePerChild(n) ==
    (Handled(n, "NetworkFinalizeEvent") /\ ~l_last.pre.stopping[n]
        /\ RM_len(l_last.pre.recs[n]) >= 1) =>
        /\ Len(SendsOf("NodeFinalizeMessage")) = RM_len(l_last.pre.recs[n])
        /\ [i \in 1..Len(l_last.sends) |-> l_last.sends[i].to]
              = ArenaSeq(l_last.pre.recs[n], 1)
        /\ l_stopping[n]

\* the drop of the last child of a stopping network
LastChildDropped(n) ==
    /\ Handled(n, "NodeDropEvent")
    /\ l_last.pre.stopping[n]
    /\ RM_len(l_last.pre.recs[n]) >= 1
    /\ RM_len(l_recs[n]) = 0

\* C12 (as claimed): finalizing a running network with N >= 1 live children
\* sends exactly N NodeFinalizeMessage, one per child, and the task that drops
\* the last child of the stopping network sends a NodeDropEvent for the
\* network's own id to its parent.
C12_FinalizeThenSelfDrop ==
    \A n \in ArenaNets :
        /\ FinalizeSendsOnePerChild(n)
        /\ LastChildDropped(n) => DropsItself(n)

DropOfLiveId(n) ==
    /\ ~l_cfg
    /\ Handled(n, "NodeDropEvent")
    /\ RM_get(l_last.pre.recs[n], l_last.msg.arg).err = "ok"
    /\ n = LRoot => l_last.msg.arg \notin {0, 1}

\* the last task reported a RuntimeError
ReportsRuntimeError == SendsOf("RuntimeError") # <<>>

\* C14 (as claimed): without a phantom registry, handling the NodeDropEvent of
\* a live id removes the node from the arena and reports a RuntimeError exactly
\* when another strong reference to the node survives; otherwise no error is
\* reported and the task goes on to the stopping-and-empty check, after which
\* a stopping network whose arena is now empty drops itself.
C14_ErrorOnlyIfReferenced ==
    \A n \in ArenaNets :
        DropOfLiveId(n) =>
            /\ RM_get(l_recs[n], l_last.msg.arg).err # "ok"
            /\ ReportsRuntimeError <=> l_last.held
            /\ ~l_last.held =>
                  /\ l_last.status = "done"
                  /\ (l_stopping[n] /\ RM_len(l_recs[n]) = 0) => DropsItself(n)

-----------------------------------------------------------------------------
(* Claims about exceptions, checked under SpecNet and SpecDispatch *)

\* the last task was the root network handling an exception event
RootHandledException ==
    n_last.op = "handle" /\ n_last.net = RootNet /\ n_last.ev.type \in ExcTypes

\* C15: whenever the root network has handled an event of class Exception or
\* of any class derived from it, the loop has been stopped.
C15_RootExceptionStops ==
    RootHandledException => (stopped /\ n_last.fns = <<"on_exception">>)

\* the root has handled an exception of a derived class
C15_Witness == RootHandledException /\ n_last.ev.type # "Exception" /\ stopped

-----------------------------------------------------------------------------
(* Claims about the root network, checked under SpecLife *)

\* what Network.on_node_drop of an ordinary network does from the state the
\* last task started in
OrdinaryDrop ==
    OnNodeDrop(LRoot,
               [LifeAcc0 EXCEPT !.w.recs = l_last.pre.recs,
                                !.w.stopping = l_last.pre.stopping,
                                !.w.made = l_last.pre.made],
               l_last.msg.arg, l_cfg)

\* C16: at the root, a NodeDropEvent for id 0 stops the loop and removes
\* nothing from the arena; one for id 1 changes nothing and record 1 stays
\* live; one for any other live id leaves the arena and sends exactly what
\* Network.on_node_drop does.
C16_RootDrop ==
    Handled(LRoot, "NodeDropEvent") =>
        /\ l_last.msg.arg = 0 =>
              /\ l_stopped
              /\ l_recs = l_last.pre.recs
              /\ l_last.sends = <<>>
        /\ l_last.msg.arg = 1 =>
              /\ l_recs = l_last.pre.recs
              /\ RM_get(l_recs[LRoot], 1).err = "ok"
              /\ l_last.sends = <<>>
              /\ l_last.status = "done"
        /\ (l_last.msg.arg \notin {0, 1}
              /\ RM_get(l_last.pre.recs[LRoot], l_last.msg.arg).err = "ok") =>
              /\ RM_get(l_recs[LRoot], l_last.msg.arg).err # "ok"
              /\ l_recs = OrdinaryDrop.w.recs
              /\ l_last.sends = OrdinaryDrop.sends
              /\ l_last.status = IF OrdinaryDrop.status = "running" THEN "done"
                                 ELSE OrdinaryDrop.status

\* the root has handled the drop of id 0, of id 1, of another live id
C16_Witness ==
    /\ Handled(LRoot, "NodeDropEvent")
    /\ l_last.msg.arg = 2
    /\ RM_get(l_last.pre.recs[LRoot], 2).err = "ok"
    /\ RM_get(l_recs[LRoot], 2).err # "ok"

-----------------------------------------------------------------------------
(* Claims about the propagation of exceptions, checked under SpecNet *)

\* the last task was network n_last.net handling an exception that one of its
\* nodes has just thrown (self.net.send_event(exc): nobody has touched the
\* traceback yet)
OwnerHandledException ==
    n_last.op = "handle" /\ n_last.ev.type \in ExcTypes /\ n_last.ev.traceback = <<>>

\* C17 (as claimed): an exception a node throws is handled by the event
\* handling of its owning network R and is not lost there: the handling does
\* not fail, a root stops the loop, another network delivers or forwards the
\* exception, and what R's subscribers observe carries traceback [R].
C17_ObservedAtOwner ==
    OwnerHandledException =>
        /\ n_last.status # "pyerror"
        /\ n_last.net = RootNet => stopped
        /\ n_last.net # RootNet =>
              /\ n_last.sends # <<>>
              /\ \A i \in 1..Len(Deliveries) :
                    /\ Deliveries[i].ev.type = n_last.ev.type
                    /\ Deliveries[i].ev.traceback = <<n_last.net>>

\* C18 (as claimed): a network other than the root that handles an exception
\* none of whose types has a subscriber on it passes the exception on to its
\* parent, once, so that the exception climbs the chain to the root.
C18_Escalates ==
    (n_last.op = "handle" /\ n_last.ev.type \in ExcTypes /\ n_last.net # RootNet
        /\ NoSubscribers) =>
        /\ Len(Forwards) = 1
        /\ Forwards[1].to = ToNet(NetParent(n_last.net))
        /\ Forwards[1].ev.type = n_last.ev.type

-----------------------------------------------------------------------------
(* Claims about shutdown, checked under SpecLifeFair *)

\* kes_finalize() has just been called; kes_finalize(force=True) has
FinalizeRequested == l_last.op = "finalize" /\ l_last.to = LRoot
ForceRequested == l_last.op = "force"

\* C19 (as claimed): kes_finalize always leads to shutdown. After
\* kes_finalize() and after kes_finalize(force=True) the loop is eventually
\* stopped.
C19_FinalizeStops == (FinalizeRequested \/ ForceRequested) ~> l_stopped

-----------------------------------------------------------------------------
(* Claims about failing handlers, checked under SpecDispatch *)

\* the last task ended because a handler raised an error that is not a kernel
\* exception
HandlerFailed == d_pc = "done" /\ d_out.status = "pyerror"

\* C20 (as claimed): when a handler fails with an unexpected error, the task
\* ends and a PyKernelError wrapping the failure is sent as an event to the
\* network that owns the failing node.
C20_PyKernelErrorDelivered ==
    HandlerFailed =>
        \E i \in 1..Len(d_out.sent) :
            d_out.sent[i] = [to |-> "net", msg |-> "PyKernelError"]

-----------------------------------------------------------------------------
(* Claims about ports, checked under SpecPort *)

\* the last task handled a port request; the port it names, before the task
Requested(mtype) == pt_last.op = "request" /\ pt_last.mtype = mtype
NamedPort == pt_last.pre.ports[pt_last.name]

\* the named port exists and its flags allow the access of the request
AccessPermitted ==
    /\ NamedPort.present
    /\ Requested("PortGet") => "READABLE" \in NamedPort.flag
    /\ Requested("PortSet") => "WRITABLE" \in NamedPort.flag

\* the DataMessage sends of the last task
DataSends == SelectSeq(pt_last.sent, LAMBDA m : m.msg = "DataMessage")

\* C21 (as claimed): a PortGet or a PortSet that arrives as the raw message of
\* ReflectMessage(target, raw) and names an existing port that permits the
\* access results in exactly one DataMessage, sent to target.
C21_ReflectiveReply ==
    (pt_last.op = "request" /\ pt_last.target # NoTarget /\ AccessPermitted) =>
        DataSends = <<[to |-> pt_last.target, msg |-> "DataMessage"]>>

\* the request names a port that is absent from the port_map, or one whose
\* flags do not allow the access
AccessRefused ==
    /\ pt_last.op = "request"
    /\ \/ ~NamedPort.present
       \/ Requested("PortGet") /\ "READABLE" \notin NamedPort.flag
       \/ Requested("PortSet") /\ "WRITABLE" \notin NamedPort.flag

\* C22 (as claimed): a PortGet or PortSet that names an absent port, or a port
\* whose flags do not allow the access, produces a PortError, sends no
\* DataMessage, and leaves the node's attributes and port_map as they were.
C22_RefusedAccess ==
    AccessRefused =>
        /\ pt_last.status = "cancelled"
        /\ \E i \in 1..Len(pt_last.sent) : pt_last.sent[i].msg = "PortError"
        /\ DataSends = <<>>
        /\ pt_attrs = pt_last.pre.attrs
        /\ pt_ports = pt_last.pre.ports

-----------------------------------------------------------------------------
(* Claims about the order of handlers, checked under SpecDispatch *)

\* the types of mro from position i on that have a handler in table, up to and
\* including the first whose handler lacks PROPAGATE
RECURSIVE MatchingUpToStop(_, _, _)
MatchingUpToStop(table, mro, i) ==
    IF i > Len(mro) THEN <<>>
    ELSE IF ~table[mro[i]].present THEN MatchingUpToStop(table, mro, i + 1)
    ELSE IF "PROPAGATE" \notin table[mro[i]].flag THEN <<mro[i]>>
    ELSE <<mro[i]>> \o MatchingUpToStop(table, mro, i + 1)

\* what the claim expects the dispatched message to invoke
ExpectedInvoked == MatchingUpToStop(DTable, MsgMro(d_in.mtype), 1)

\* p is an initial part of q
IsPrefix(p, q) == Len(p) <= Len(q) /\ SubSeq(q, 1, Len(p)) = p

\* C23 (as claimed): a dispatch invokes exactly the matching handlers of the
\* message's hierarchy, most specific first, up to and including the first
\* one without PROPAGATE, and no handler after that one.
C23_InvokedExactly == d_pc = "done" => d_out.invoked = ExpectedInvoked

\* C23 (amended): the handlers invoked are always an initial part of that
\* list, in hierarchy order, and they are the whole list whenever the task
\* runs to its end; the walk ends earlier only at a handler that raises, at a
\* reply that fails, or before the first handler when the node is owned by the
\* phantom network.
C23_InvokedPrefix ==
    d_pc = "done" =>
        /\ IsPrefix(d_out.invoked, ExpectedInvoked)
        /\ d_out.status = "done" => d_out.invoked = ExpectedInvoked
        /\ d_out.invoked # ExpectedInvoked =>
              \/ d_in.phantom
              \/ /\ d_out.invoked # <<>>
                 /\ \/ d_in.outcome[d_out.invoked[Len(d_out.invoked)]] # "ret"
                    \/ d_out.status = "cancelled"

\* a Derived message has run a PROPAGATE handler for Derived and then the
\* handler for Base, where the walk stopped
C23_Witness ==
    /\ d_pc = "done"
    /\ d_out.status = "done"
    /\ d_in.mtype = "Derived"
    /\ "PROPAGATE" \in DTable["Derived"].flag
    /\ "PROPAGATE" \notin DTable["Base"].flag
    /\ d_out.invoked = <<"Derived", "Base">>

-----------------------------------------------------------------------------
(* Claims about replies, checked under SpecDispatch *)

\* the DataMessage sends of the dispatch, in order
Replies == SelectSeq(d_out.sent, LAMBDA m : m.msg = "DataMessage")

\* the invoked handler k returned and is flagged SEND_RET
ReturnsReply(k) ==
    /\ d_in.outcome[d_out.invoked[k]] = "ret"
    /\ "SEND_RET" \in DTable[d_out.invoked[k]].flag

\* one DataMessage for each node of a sequence, in its order
OneEach(nodes) == [k \in 1..Len(nodes) |-> [to |-> nodes[k], msg |-> "DataMessage"]]

\* the replies the claim expects from the invoked handlers k, k + 1, ...
RECURSIVE ExpectedReplies(_)
ExpectedReplies(k) ==
    IF k > Len(d_out.invoked) THEN <<>>
    ELSE IF ~ReturnsReply(k) THEN ExpectedReplies(k + 1)
    ELSE IF d_in.target # NoTarget
    THEN IF "REFLECTIVE" \notin DTable[d_out.invoked[k]].flag THEN <<>>
         ELSE <<[to |-> d_in.target, msg |-> "DataMessage"]>> \o ExpectedReplies(k + 1)
    ELSE IF d_in.next.err # "ok" THEN <<>>
    ELSE OneEach(d_in.next.nodes) \o ExpectedReplies(k + 1)

\* C24, with the nodes net._record_next(self.nid) yields taken for the nodes
\* the forward edges of the handling node lead to: the reply of a SEND_RET
\* handler that returned goes only to the target of the ReflectMessage when
\* the message arrived in one, and a SEND_RET handler without REFLECTIVE then
\* sends no reply and ends the task with an UnsupportedMessageError; otherwise
\* one copy goes to each of these nodes, and to no other node.
C24_ReplyRouting ==
    d_pc = "done" =>
        /\ Replies = ExpectedReplies(1)
        /\ \A k \in 1..Len(d_out.invoked) :
              (ReturnsReply(k) /\ d_in.target # NoTarget
                  /\ "REFLECTIVE" \notin DTable[d_out.invoked[k]].flag) =>
                  /\ k = Len(d_out.invoked)
                  /\ d_out.status = "cancelled"
                  /\ d_out.sent[Len(d_out.sent)] =
                        [to |-> "net", msg |-> "UnsupportedMessageError"]

\* a reply has been passed down two forward edges, one copy each
C24_Witness ==
    /\ d_pc = "done"
    /\ d_in.target = NoTarget
    /\ d_in.next = [err |-> "ok", nodes |-> <<"t2", "t1">>]
    /\ Len(d_out.invoked) = 1
    /\ d_out.sent = <<[to |-> "t2", msg |-> "DataMessage"],
                      [to |-> "t1", msg |-> "DataMessage"]>>

-----------------------------------------------------------------------------
(* Claims about the storage of the arena, checked under SpecArena *)

\* the last operation was a drop that returned node
Dropped == a_last.op = "drop" /\ a_last.err = "ok"

\* the storage slots that refer to node
SlotsOf(node) == {i \in 1..Len(records) : records[i].node = node}

\* C30: after drop(id) has returned, no storage slot of the arena refers to
\* the dropped node any more, whether id was the last slot or an interior one.
C30_NoSlotRefers == Dropped => SlotsOf(a_last.node) = {}

\* the part of C30 about the last slot: popping it releases the node
C30_LastSlotReleased ==
    (Dropped /\ a_last.arg = Len(a_last.pre.records) - 1) => SlotsOf(a_last.node) = {}

\* an interior drop leaves the record in its slot and only marks the id free
C30_InteriorSlotKept ==
    (Dropped /\ a_last.arg # Len(a_last.pre.records) - 1) =>
        /\ records = a_last.pre.records
        /\ records[a_last.arg + 1].node = a_last.node
        /\ id_cache = a_last.pre.id_cache \cup {a_last.arg}

-----------------------------------------------------------------------------
(* Claims about the event map, checked under SpecNet *)

\* the subscribers network n has for event class t
SubscribersOf(emap, t) == IF t \in DOMAIN emap THEN emap[t] ELSE <<>>

\* q without every occurrence of x
OthersOf(q, x) == SelectSeq(q, LAMBDA y : y # x)

\* the step is net._unregister_event(t, s) on network n, s not registered for t
UnregistersAbsent(n, t, s) ==
    Unregister(n, t, s) /\ ~InSeq(SubscribersOf(event_map[n], t), s)

\* the step is net._unregister_event(t, s) on network n, s registered for t
UnregistersPresent(n, t, s) ==
    Unregister(n, t, s) /\ InSeq(SubscribersOf(event_map[n], t), s)

\* the step removes one occurrence of s from the subscribers of t on network n
\* and keeps the order of the others
RemovesOne(n, t, s) ==
    /\ DOMAIN event_map'[n] = DOMAIN event_map[n]
    /\ \A u \in DOMAIN event_map[n] \ {t} : event_map'[n][u] = event_map[n][u]
    /\ Len(event_map'[n][t]) = Len(event_map[n][t]) - 1
    /\ OthersOf(event_map'[n][t], s) = OthersOf(event_map[n][t], s)
    /\ tasks' = tasks

\* C29: unregistering a node that is not registered for the event class fails
\* with a RuntimeError and leaves the event map unchanged, no key added or
\* removed; unregistering a registered node removes exactly one occurrence of
\* it and keeps the relative order of the other subscribers of the class.
C29_Unregister ==
    [][\A n \in Nets, t \in RegTypes, s \in Subs :
          /\ UnregistersAbsent(n, t, s) =>
                /\ event_map' = event_map
                /\ tasks' = Append(tasks, [to |-> ToNet(n), ev |-> NewEvent("RuntimeError")])
          /\ UnregistersPresent(n, t, s) => RemovesOne(n, t, s)]_vars

\* the part of C29 about a registered node
C29_RemovesOneOccurrence ==
    [][\A n \in Nets, t \in RegTypes, s \in Subs :
          UnregistersPresent(n, t, s) => RemovesOne(n, t, s)]_vars

\* what the unregistration of a node that is not registered does: a ValueError
\* sent to the network itself, and the class a key of the map from then on
C29_AbsentIsValueError ==
    [][\A n \in Nets, t \in RegTypes, s \in Subs :
          UnregistersAbsent(n, t, s) =>
             /\ tasks' = Append(tasks, [to |-> ToNet(n), ev |-> NewEvent("ValueError")])
             /\ DOMAIN event_map'[n] = DOMAIN event_map[n] \cup {t}
             /\ \A u \in DOMAIN event_map[n] : event_map'[n][u] = event_map[n][u]
             /\ \A m \in Nets \ {n} : event_map'[m] = event_map[m]]_vars

\* the unregistration of a node that is not registered never adds a key
C29_AbsentAddsNoKey ==
    [][\A n \in Nets, t \in RegTypes, s \in Subs :
          UnregistersAbsent(n, t, s) => event_map' = event_map]_vars

\* the last task was network n_last.net handling an event of the given mode
HandledMode(mode) == n_last.op = "handle" /\ EvMode(n_last.ev.type) = mode

\* the last task sent the handled event itself to the parent, once, and
\* nothing else to any network
ForwardedOnce ==
    /\ Len(Forwards) = 1
    /\ Forwards[1].to = ToNet(NetParent(n_last.net))
    /\ Forwards[1].ev.type = n_last.ev.type

\* the last task sent an UnsupportedMessageError to the parent and was
\* cancelled, and the handled event went to no network
RaisedUnsupported ==
    /\ Forwards = <<[to |-> ToNet(NetParent(n_last.net)),
                     ev |-> NewEvent("UnsupportedMessageError")]>>
    /\ n_last.status = "cancelled"

\* no class of the handled event's hierarchy is a key of the event map
NoKey ==
    \A k \in 1..Len(EvMro(n_last.ev.type)) :
        EvMro(n_last.ev.type)[k] \notin DOMAIN event_map[n_last.net]

C25_ForcePropagate == HandledMode("FORCE_PROPAGATE") => ForwardedOnce

C25_ThrowErr == (HandledMode("THROW_ERR") /\ NoSubscribers) => RaisedUnsupported

C25_Ignore ==
    (HandledMode("IGNORE") /\ NoSubscribers) =>
        (n_last.sends = <<>> /\ n_last.status = "done")

\* C25: a FORCE_PROPAGATE event is resent to the parent exactly once by every
\* network that handles it, with or without matching subscribers; a THROW_ERR
\* event without matching subscriber is not forwarded and raises an
\* UnsupportedMessageError; an IGNORE event without matching subscriber is
\* neither forwarded nor reported as an error.
C25_ModePolicy == C25_ForcePropagate /\ C25_ThrowErr /\ C25_Ignore

\* the THROW_ERR part of C25 for a network whose event map has no key for any
\* class of the event
C25_ThrowErrNoKey == (HandledMode("THROW_ERR") /\ NoKey) => RaisedUnsupported

\* a THROW_ERR event whose class is a key with an empty list passes in silence
C25_ThrowErrEmptyKey ==
    (HandledMode("THROW_ERR") /\ NoSubscribers /\ ~NoKey) =>
        (n_last.sends = <<>> /\ n_last.status = "done")

\* the last task was the root handling an event whose mode asks for
\* propagation and that no subscriber of the root matches
ReachedRootUnmatched ==
    /\ n_last.op = "handle"
    /\ n_last.net = RootNet
    /\ EvMode(n_last.ev.type) \in {"PROPAGATE", "FORCE_PROPAGATE"}
    /\ NoSubscribers

\* C28: the root is terminal for propagation: a PROPAGATE or FORCE_PROPAGATE
\* event that reaches the root without a matching subscriber is not forwarded
\* again.
C28_RootTerminal == ReachedRootUnmatched => Forwards = <<>>

\* the part of C28 that holds: an exception that reaches the root is handled
\* by on_exception and forwarded nowhere
C28_RootKeepsExceptions ==
    (ReachedRootUnmatched /\ n_last.ev.type \in ExcTypes) =>
        (n_last.sends = <<>> /\ n_last.fns = <<"on_exception">>)

\* an event of another class that asks for propagation is sent by the root to
\* the root again, unless a class of the event is a key of its event map and
\* the mode is PROPAGATE
C28_RootResendsToItself ==
    (ReachedRootUnmatched /\ n_last.ev.type \notin ExcTypes
        /\ (NoKey \/ EvMode(n_last.ev.type) = "FORCE_PROPAGATE")) =>
        /\ ForwardedOnce
        /\ Forwards[1].to = ToNet(RootNet)
        /\ \E k \in 1..Len(tasks) : tasks[k] = Forwards[1]

-----------------------------------------------------------------------------
(* Claims about forward edges, checked under SpecEdge *)

\* the ids of the live records of network n whose forward edges contain id
EdgesTo(n, id) ==
    {i \in RM_iter(l_recs[n]) : id \in l_recs[n].records[i + 1].next}

\* the last task was network n handling a NodeDropEvent
HandledDrop(n) ==
    l_last.op = "handle" /\ l_last.to = n /\ l_last.msg.type = "NodeDropEvent"

\* the last task was network n handling a NodeNewEvent and allocating a node
HandledNew(n) ==
    /\ l_last.op = "handle" /\ l_last.to = n /\ l_last.msg.type = "NodeNewEvent"
    /\ l_count.made = l_last.pre.made + 1

\* the node the last task allocated
NewNode == ToChild(l_count.made)

\* the id of the new node was the id of an earlier node of the same network
Reused(n) ==
    \E c \in Children \ {NewNode} : l_net[c] = n /\ l_nid[c] = l_nid[NewNode]

\* C26: after a network has handled NodeDropEvent(id), no live record's
\* forward edges contain id; so a node allocated later under the reused id
\* has no incoming forward edge and no outgoing one.
C26_NoEdgeToDropped ==
    \A n \in ArenaNets :
        /\ HandledDrop(n) => EdgesTo(n, l_last.msg.arg) = {}
        /\ (HandledNew(n) /\ Reused(n)) =>
              /\ EdgesTo(n, l_nid[NewNode]) = {}
              /\ l_recs[n].records[l_nid[NewNode] + 1].next = {}

\* the part of C26 that holds: once on_node_drop has run for id, no live
\* record's forward edges contain it, whether the drop succeeded or not
C26_DisconnectedByDrop ==
    \A n \in ArenaNets :
        (HandledDrop(n) /\ \E k \in 1..Len(l_last.fns) : l_last.fns[k] = "on_node_drop") =>
            EdgesTo(n, l_last.msg.arg) = {}

\* the part of C26 that holds: a new record has no outgoing edge
C26_NewRecordHasNoNext ==
    \A n \in ArenaNets :
        HandledNew(n) => l_recs[n].records[l_nid[NewNode] + 1].next = {}

\* a new node under a reused id never has an incoming edge
C26_NoIncomingAfterReuse ==
    \A n \in ArenaNets :
        (HandledNew(n) /\ Reused(n)) => EdgesTo(n, l_nid[NewNode]) = {}

\* every NodeDropEvent a network handles leaves no edge to the id
C26_EveryDropDisconnects ==
    \A n \in ArenaNets : HandledDrop(n) => EdgesTo(n, l_last.msg.arg) = {}

\* the last task was a node made by node_new answering a PortGet that was not
\* wrapped in a ReflectMessage, to the end
AnsweredPortGet ==
    /\ l_last.op = "handle" /\ l_last.msg.type = "PortGet"
    /\ l_last.to \in Children
    /\ l_last.status = "done"

\* the DataMessage sends of the last task
LifeReplies == SelectSeq(l_last.sends, LAMBDA m : m.ev.type = "DataMessage")

\* the record of node c in its network, if the network still has c
RecordOf(c) == RM_get(l_recs[l_net[c]], l_nid[c])
IsMember(c) == RecordOf(c).err = "ok" /\ RecordOf(c).record.node = c

\* the nodes the forward edges of node c lead to
NextNodes(c) ==
    IF ~IsMember(c) THEN {}
    ELSE {l_recs[l_net[c]].records[i + 1].node :
             i \in RecordOf(c).record.next \cap RM_iter(l_recs[l_net[c]])}

\* C24, for a reply that is passed down: one copy goes to each node a forward
\* edge of the handling node leads to, and to no other node.
C24_PassDownToOwnEdges ==
    AnsweredPortGet =>
        /\ {LifeReplies[k].to : k \in 1..Len(LifeReplies)} = NextNodes(l_last.to)
        /\ Len(LifeReplies) = Cardinality(NextNodes(l_last.to))

\* C24 holds for the handling nodes that are members of their network
C24_PassDownOfMember ==
    (AnsweredPortGet /\ IsMember(l_last.to)) =>
        /\ {LifeReplies[k].to : k \in 1..Len(LifeReplies)} = NextNodes(l_last.to)
        /\ Len(LifeReplies) = Cardinality(NextNodes(l_last.to))

\* a member's reply has been passed down an edge
C24_MemberReplied == AnsweredPortGet /\ IsMember(l_last.to) /\ LifeReplies # <<>>

-----------------------------------------------------------------------------
(* Claims about cancellation *)

\* the last task was a port request whose handler threw a kernel exception
PortHandlerThrew == pt_last.op = "request" /\ pt_last.out = "throw"

\* the last task sent one exception, to the network that owns the handling
\* node, and nothing else, and ended cancelled
ThrownOnceToOwner ==
    /\ Len(pt_last.sent) = 1
    /\ pt_last.sent[1].to = "net"
    /\ pt_last.sent[1].msg \in ExcTypes
    /\ pt_last.status = "cancelled"

\* C27 (checked under SpecPort): an exception raised inside a handler is sent
\* to the owning network exactly once and the task is cancelled there: nothing
\* of the handler after the raise is executed and no reply is sent.
C27_RaiseSendsToOwner == PortHandlerThrew => ThrownOnceToOwner

\* C27 holds for every port handler but the PortSet on a record port, whose
\* exception is thrown by the value and goes to the value's network
C27_RaiseOutsideRecordSet ==
    (PortHandlerThrew /\ ~(Requested("PortSet") /\ NamedPort.kind = "record")) =>
        (ThrownOnceToOwner /\ pt_attrs = pt_last.pre.attrs)

\* under SpecDispatch: a handler that throws is the last one invoked, its
\* exception is the only send to the network and the last send of the task
C27_ThrowEndsDispatch ==
    (d_pc = "done" /\ ~d_in.phantom) =>
        \A k \in 1..Len(d_out.invoked) :
            d_in.outcome[d_out.invoked[k]] = "throw" =>
                /\ k = Len(d_out.invoked)
                /\ d_out.status = "cancelled"
                /\ d_out.sent[Len(d_out.sent)] = [to |-> "net", msg |-> "Exception"]
                /\ Len(SelectSeq(d_out.sent, LAMBDA m : m.to = "net")) = 1

\* under SpecLife: a task that ends cancelled leaves every other scheduled
\* task in the queue, in its place, ahead of the delivery of the exception
C27_OtherTasksStay ==
    [][(LifeRunTask /\ l_last'.status = "cancelled") =>
          /\ l_last'.sends # <<>>
          /\ l_last'.sends[Len(l_last'.sends)].ev.type \in ExcTypes
          /\ SubSeq(l_tasks', 1, Len(l_tasks) - 1) = Tail(l_tasks)
          /\ l_tasks'[Len(l_tasks')] = l_last'.sends[Len(l_last'.sends)]]_vars

-----------------------------------------------------------------------------
(* Claims about handled events, checked under SpecNet *)

\* the handled event is not derived from Exception: add_traceback succeeds
PlainPropagate == HandledMode("PROPAGATE") /\ ~n_last.ev.tbList

\* some class of the handled event's hierarchy is a key of the event map
\* with an empty list: what the removal of the last subscriber, or a failed
\* unregistration, leaves behind
EmptyKey ==
    \E k \in 1..Len(EvMro(n_last.ev.type)) :
        LET t == EvMro(n_last.ev.type)[k] IN
        t \in DOMAIN event_map[n_last.net] /\ event_map[n_last.net][t] = <<>>

\* C33: a network treats an event as handled only if at least one subscriber
\* actually receives it: a PROPAGATE event that the network handles and
\* delivers to no subscriber (after the last subscriber of its class was
\* unregistered, or after a failed unregistration for a class that never had
\* subscribers) is still forwarded to the parent network.
C33_HandledOnlyIfDelivered ==
    (PlainPropagate /\ Deliveries = <<>>) => ForwardedOnce

\* the part of C33 that holds: with no key for any class of the event, the
\* event is forwarded
C33_NoKeyForwards == (PlainPropagate /\ NoKey) => ForwardedOnce

\* what an empty key does: the event counts as handled and goes nowhere
C33_EmptyKeySwallows ==
    (PlainPropagate /\ NoSubscribers /\ EmptyKey) =>
        (n_last.sends = <<>> /\ n_last.status = "done")

\* a PROPAGATE event delivered to no subscriber on a network that has an
\* empty key for it
C33_EmptyKeyHandled == PlainPropagate /\ NoSubscribers /\ EmptyKey

-----------------------------------------------------------------------------
(* Claims about initialization, checked under SpecLife and SpecLifeFair *)

\* kes_init() has just been called
InitRequested == l_last.op = "initialize" /\ l_last.to = LRoot

\* a call from outside other than kes_init has just been made
FurtherInput == l_last.op \notin {"none", "handle"} /\ ~InitRequested

\* the last task was the root handling its NetworkInitializeEvent
RootInitializing ==
    /\ l_last.op = "handle"
    /\ l_last.to = LRoot
    /\ l_last.msg.type = "NetworkInitializeEvent"

\* the nodes of the root's records at the last task, in id order
RootRecordNodes == ArenaSeq(l_last.pre.recs[LRoot], 1)

\* C31: after kes_init with no further external input the system quiesces:
\* the root's NetworkInitializeEvent sends NodeInitializeMessage to each live
\* child of the root exactly once, initialization is not re-triggered, and
\* eventually no task is pending: after kes_init, either another call arrives
\* from outside or the ready queue becomes empty.
C31_InitQuiesces == InitRequested ~> (l_tasks = <<>> \/ FurtherInput)

\* the part of C31 about the fan-out that holds: one NodeInitializeMessage
\* per record of the root, in id order, and nothing else
C31_OneMessagePerRecord ==
    RootInitializing =>
        /\ Len(l_last.sends) = Len(RootRecordNodes)
        /\ \A i \in 1..Len(RootRecordNodes) :
               l_last.sends[i] = [to |-> RootRecordNodes[i],
                                  ev |-> LMsg("NodeInitializeMessage", NoNid)]

\* initialization is not re-triggered: the root's NetworkInitializeEvent
\* sends no NodeInitializeMessage to the root itself
C31_NotRetriggered ==
    RootInitializing =>
        \A i \in 1..Len(l_last.sends) : l_last.sends[i].to # LRoot

\* the root is a record of its own arena whenever it initializes
C31_RootIsOwnRecord ==
    RootInitializing =>
        \E i \in 1..Len(RootRecordNodes) : RootRecordNodes[i] = LRoot

-----------------------------------------------------------------------------
(* Claims about dropped nodes, checked under SpecEdge *)

\* the last task was a message handled by a node that node_new has created
ChildHandled == l_last.op = "handle" /\ l_last.to \in Children

\* node c had no record in its network when the last task began: the network
\* has handled the NodeDropEvent for it
HadNoRecord(c) ==
    /\ l_net[c] \in ArenaNets
    /\ \A i \in 1..Len(ArenaSeq(l_last.pre.recs[l_net[c]], 1)) :
           ArenaSeq(l_last.pre.recs[l_net[c]], 1)[i] # c

\* the last task was refused by handle_message: no handler ran, and the
\* RuntimeError went to the node's network
RefusedAsPhantom ==
    /\ l_last.fns = <<>>
    /\ l_last.status = "cancelled"
    /\ l_last.sends = <<[to |-> l_net[l_last.to], ev |-> LMsg("RuntimeError", NoNid)]>>

\* C34: with a phantom registry configured, once a network has handled the
\* NodeDropEvent for node X, no handler of X ever runs again: every message
\* dispatched to X afterwards is rejected with a RuntimeError, including
\* messages dispatched before the phantom network has processed the
\* NodeTransferEvent for X.
C34_NoHandlerAfterDrop ==
    (l_cfg /\ ChildHandled /\ (l_net[l_last.to] = Phantom \/ HadNoRecord(l_last.to)))
        => RefusedAsPhantom

\* the part of C34 that holds: once the phantom network has received the
\* node, every message to it is refused
C34_RefusedOnceReceived ==
    (ChildHandled /\ l_net[l_last.to] = Phantom) => RefusedAsPhantom

\* a message handled by a dropped node before the phantom network has
\* received it
C34_InWindow == l_cfg /\ ChildHandled /\ HadNoRecord(l_last.to)

\* a message to a node that the phantom network has received
C34_AfterReceive == ChildHandled /\ l_net[l_last.to] = Phantom

-----------------------------------------------------------------------------
(* Claims about freed ids and repeated drops, checked under SpecReuse *)

\* the NodeDropEvents among the sends of the last task
DropSends == SelectSeq(l_last.sends, LAMBDA m : m.ev.type = "NodeDropEvent")

\* the last task was network n handling an event of class t
NetHandled(n, t) == l_last.op = "handle" /\ l_last.to = n /\ l_last.msg.type = t

\* network n was stopping and had no record when the last task began
WasStoppingEmpty(n) ==
    l_last.pre.stopping[n] /\ RM_len(l_last.pre.recs[n]) = 0

\* C35: a network emits a NodeDropEvent for its own id at most once in its
\* lifetime, even if it receives NodeFinalizeMessage more than once or handles
\* further NodeDropEvents while it is stopping and already empty.
C35_SelfDropAtMostOnce == \A n \in LifeNetworks : l_drops[n] <= 1

\* the part of C35 that holds: a NodeDropEvent handled by a network that is
\* stopping and already empty fails in records.drop and emits nothing
C35_DropWhileEmptyEmitsNothing ==
    \A n \in ArenaNets :
        (NetHandled(n, "NodeDropEvent") /\ WasStoppingEmpty(n)) =>
            DropSends = <<>>

\* what a NetworkFinalizeEvent does to an empty network that the phantom
\* network has not received, the first time and every time after: one more
\* NodeDropEvent for the network's own id
C35_FinalizeWhileEmptyEmits ==
    \A n \in ArenaNets :
        (/\ NetHandled(n, "NetworkFinalizeEvent")
         /\ RM_len(l_last.pre.recs[n]) = 0
         /\ l_net[n] # Phantom) =>
            DropSends = <<[to |-> l_net[n], ev |-> LMsg("NodeDropEvent", l_nid[n])]>>

\* a network that was already stopping and empty handles another
\* NetworkFinalizeEvent
C35_SecondFinalize ==
    \E n \in ArenaNets : NetHandled(n, "NetworkFinalizeEvent") /\ WasStoppingEmpty(n)

\* a network that was already stopping and empty handles a NodeDropEvent
C35_DropWhileEmpty ==
    \E n \in ArenaNets : NetHandled(n, "NodeDropEvent") /\ WasStoppingEmpty(n)

\* the nodes that have a record in the arena st
NodesIn(st) == {ArenaSeq(st, 1)[i] : i \in 1..Len(ArenaSeq(st, 1))}

\* the last task was a network handling a NodeDropEvent that a node sent for
\* itself with drop(); l_last.from is that node
SelfDropHandled ==
    /\ l_last.op = "handle"
    /\ l_last.to \in ArenaNets
    /\ l_last.msg.type = "NodeDropEvent"
    /\ l_last.from # NoOwner

\* the nodes whose record the last task removed from the handling network
RemovedNodes == NodesIn(l_last.pre.recs[l_last.to]) \ NodesIn(l_recs[l_last.to])

\* C32: a NodeDropEvent emitted by node X (through X.drop() or X's finalize
\* handler) never removes a different node: if X's id has been freed and
\* given to a node Y by the time the event is handled, Y stays live in the
\* arena.
C32_DropRemovesOnlyEmitter == SelfDropHandled => RemovedNodes \subseteq {l_last.from}

\* the part of C32 that holds: whoever sent it, a NodeDropEvent removes at
\* most the node that holds the id it carries when it is handled
C32_RemovesHolderOfId ==
    (l_last.op = "handle" /\ l_last.to \in ArenaNets
        /\ l_last.msg.type = "NodeDropEvent") =>
        \A y \in RemovedNodes :
            /\ RM_get(l_last.pre.recs[l_last.to], l_last.msg.arg).err = "ok"
            /\ RM_get(l_last.pre.recs[l_last.to], l_last.msg.arg).record.node = y

\* a node's own NodeDropEvent is handled when its id belongs to another node
C32_IdReassigned ==
    /\ SelfDropHandled
    /\ RM_get(l_last.pre.recs[l_last.to], l_last.msg.arg).err = "ok"
    /\ RM_get(l_last.pre.recs[l_last.to], l_last.msg.arg).record.node # l_last.from

\* a node's own NodeDropEvent removes the node itself
C32_RemovedItself == SelfDropHandled /\ RemovedNodes = {l_last.from}

====
